---- MODULE Spec2Model ----
(***************************************************************************)
(* GraphRAG retrieval pipeline of src/graphrag_service.py over the graph   *)
(* store of src/neo4j_service.py.                                          *)
(*                                                                         *)
(* Text is a sequence of symbols; a symbol is one character, written as a  *)
(* TLA+ string (a CJK character by its pinyin).  Weights and confidences   *)
(* are in tenths (9 stands for 0.9).                                       *)
(***************************************************************************)
EXTENDS Integers, Sequences, FiniteSets, TLC

VARIABLES
    pc,         \* position of the running operation
    question,   \* query's argument
    max_hops,   \* query's hop limit, handed on to _retrieve_subgraph
    llmResp,    \* what the model answers to the extraction prompt
    genResp,    \* what the model answers to the generation prompt
    store,      \* contents of the graph store
    mentions,   \* _llm_extract_entities_structured's result
    keywords,   \* _extract_keywords' result
    idx,        \* loop position in the mention, keyword or entity list
    linked,     \* linked_entities of the running linker
    seen,       \* seen_entities of the running linker
    source,     \* which strategy produced the entities
    entities,   \* entities of query / of _retrieve_subgraph
    ranked,     \* diseases returned by the running ranked search
    ridx,       \* loop position in ranked
    subgraph,   \* subgraph of _retrieve_subgraph
    seenNames,  \* the five seen_* sets of _retrieve_subgraph
    context,    \* _build_knowledge_context's result
    answer,     \* _generate_answer's result
    calls,      \* calls issued to the store and to the model, in order
    result,     \* what query returned
    _graphrag_service_instance,    \* module global of graphrag_service.py
    _neo4j_service_instance,       \* module global of neo4j_service.py
    constructed,    \* how often each service constructor has run
    callers,        \* the threads calling the accessors: position and locals
    peer            \* a second query call running on the same service

vars == <<pc, question, max_hops, llmResp, genResp, store, mentions, keywords, idx,
          linked, seen, source, entities, ranked, ridx, subgraph, seenNames,
          context, answer, calls, result,
          _graphrag_service_instance, _neo4j_service_instance, constructed,
          callers, peer>>

\* the variables of the accessors and of the second call
others == <<_graphrag_service_instance, _neo4j_service_instance, constructed,
            callers, peer>>

-----------------------------------------------------------------------------
(* Bounds of the model *)

MaxQLen == 2        \* symbols in a question
MaxMentions == 2    \* entities in a JSON model response
MaxLineLen == 3     \* symbols in a line of a non-JSON model response
MaxNodes == 2       \* nodes in the store of a query
MaxEntities == 2    \* linked entities handed to the expander on its own
MaxCtxLen == 11     \* symptoms of the largest one-hop context

-----------------------------------------------------------------------------
(* Program constants *)

DefaultMaxHops == 2
DefaultConfidence == 8
FallbackConfidence == 7
ExactLimit == 1
FuzzyLimit == 5
RuleLimit == 3
TopK == 10
SymptomCap == 10
DrugCap == 10
CheckCap == 10
DepartmentCap == 5
SingleMinLen == 2
SingleMaxLen == 4
Combo3MinLen == 3
Combo3MaxLen == 6
MinNameLen == 2
ContextDiseaseCap == 5
ContextSymptomCap == 10
ContextDrugCap == 10
ContextCheckCap == 10
ContextDepartmentCap == 5
CitedDiseases == 5
CitedSymptoms == 5
SummaryLines == 10

-----------------------------------------------------------------------------
(* Sequences *)

Min(a, b) == IF a < b THEN a ELSE b

SeqsUpTo(S, n) == UNION {[1..k -> S] : k \in 0..n}

\* Python s[:n]
Take(s, n) == SubSeq(s, 1, Min(n, Len(s)))

\* Python kw in name / Cypher name CONTAINS kw
Contains(name, kw) ==
    \E i \in 0..(Len(name) - Len(kw)) : SubSeq(name, i + 1, i + Len(kw)) = kw

RECURSIVE Concat(_)
Concat(ss) == IF ss = <<>> THEN <<>> ELSE Head(ss) \o Concat(Tail(ss))

NoDup(s) == \A i, j \in 1..Len(s) : s[i] = s[j] => i = j

IsPrefix(s, t) == Len(s) <= Len(t) /\ SubSeq(t, 1, Len(s)) = s

Names(s) == [k \in 1..Len(s) |-> s[k].name]

-----------------------------------------------------------------------------
(* Character classes *)

Quotes == {"\"", "'"}
Spaces == {" "}
Separators == {":", "-"}
Punct == {",", "?", "{", "["}

\* [一-龥]: every symbol of the model that is not ASCII punctuation
IsCJK(c) == c \notin Quotes \cup Spaces \cup Separators \cup Punct

\* \w
IsWord(c) == IsCJK(c)

RECURSIVE LStrip(_)
LStrip(s) == IF s # <<>> /\ Head(s) \in Spaces THEN LStrip(Tail(s)) ELSE s

RECURSIVE RStrip(_)
RStrip(s) ==
    IF s # <<>> /\ s[Len(s)] \in Spaces THEN RStrip(SubSeq(s, 1, Len(s) - 1)) ELSE s

\* str.strip()
Strip(s) == RStrip(LStrip(s))

-----------------------------------------------------------------------------
(* The graph store: Neo4jService *)

KnownTypes == {"Disease", "Symptom", "Drug", "Check", "Department"}
NoType == "None"

\* fuzzy_search_entity: the first `limit` nodes, in the store's scan order,
\* whose name contains the keyword (and that carry the label, when one is given)
fuzzy_search_entity(st, keyword, entity_type, limit) ==
    LET hits == SelectSeq(st.nodes,
                    LAMBDA n : /\ entity_type # NoType => n.type = entity_type
                               /\ Contains(n.name, keyword))
    IN  [k \in 1..Min(limit, Len(hits)) |->
            [name |-> hits[k].name,
             description |-> hits[k].description,
             type |-> IF entity_type # NoType THEN entity_type ELSE hits[k].type]]

DiseaseNodes(st) == SelectSeq(st.nodes, LAMBDA n : n.type = "Disease")

HasDisease(st, name) == \E k \in 1..Len(st.nodes) :
    st.nodes[k].type = "Disease" /\ st.nodes[k].name = name

DiseaseNode(st, name) == CHOOSE n \in {st.nodes[k] : k \in 1..Len(st.nodes)} :
    n.type = "Disease" /\ n.name = name

RECURSIVE SumWeights(_)
SumWeights(es) == IF es = <<>> THEN 0 ELSE Head(es).weight + SumWeights(Tail(es))

\* the HAS_SYMPTOM edges of disease d that end in one of the named symptoms
MatchedEdges(st, d, symptoms) ==
    SelectSeq(st.rel[d].symptoms,
              LAMBDA e : \E k \in 1..Len(symptoms) : symptoms[k] = e.name)

\* one row of the ranking query: SUM(r.weight), COUNT(s)
RankRow(st, n, symptoms) ==
    [name |-> n.name,
     description |-> n.description,
     match_score |-> SumWeights(MatchedEdges(st, n.name, symptoms)),
     matched_symptoms |-> Len(MatchedEdges(st, n.name, symptoms))]

\* ORDER BY total_weight DESC, matched_symptoms DESC
RankedBefore(a, b) ==
    \/ a.match_score > b.match_score
    \/ a.match_score = b.match_score /\ a.matched_symptoms >= b.matched_symptoms

\* find_diseases_by_symptoms: every list the query may return; rows that tie
\* on both sort keys come in an order the store chooses
\* the orders in which the rows can come back: any row that no other row
\* must precede comes first, then the others in the same way
RECURSIVE RankOrders(_)
RankOrders(rows) ==
    IF rows = {} THEN {<<>>}
    ELSE UNION {{<<r>> \o p : p \in RankOrders(rows \ {r})} :
                    r \in {x \in rows : \A y \in rows : RankedBefore(x, y)}}

find_diseases_by_symptoms(st, symptoms, top_k) ==
    LET ds   == DiseaseNodes(st)
        rows == {RankRow(st, ds[k], symptoms) : k \in
                    {j \in 1..Len(ds) : MatchedEdges(st, ds[j].name, symptoms) # <<>>}}
    IN  {Take(p, top_k) : p \in RankOrders(rows)}

\* collect(DISTINCT {name: x.name, ...}) after OPTIONAL MATCH: one all-null
\* entry when the disease has no such neighbour
Collected(list, nullEntry) == IF list = <<>> THEN <<nullEntry>> ELSE list

\* get_disease_full_context
get_disease_full_context(st, disease_name) ==
    IF ~HasDisease(st, disease_name)
    THEN [error |-> "not found"]
    ELSE LET r == st.rel[disease_name]
             symptoms == Collected(r.symptoms, [name |-> <<>>, weight |-> 0])
             drugs == Collected(r.drugs, [name |-> <<>>, usage |-> ""])
             checks == Collected(r.checks, [name |-> <<>>, priority |-> ""])
             departments == Collected(r.departments, <<>>)
         IN  [disease |-> [name |-> disease_name,
                           desc |-> DiseaseNode(st, disease_name).description],
              symptoms |-> SelectSeq(symptoms, LAMBDA s : s.name # <<>>),
              drugs |-> SelectSeq(drugs, LAMBDA d : d.name # <<>>),
              checks |-> SelectSeq(checks, LAMBDA c : c.name # <<>>),
              departments |-> SelectSeq(departments, LAMBDA dept : dept # <<>>)]

-----------------------------------------------------------------------------
(* The language model's answer to the extraction prompt *)

\* Type labels are one-symbol words in a JSON answer
Label(t) == <<t>>

\* type_mapping.get(entity_type)
TypeMapping(entity_type) ==
    IF Len(entity_type) = 1 /\ entity_type[1] \in KnownTypes
    THEN entity_type[1] ELSE NoType

\* json.loads succeeds on text of the model's alphabet only when the text is
\* one double-quoted string; the value is then a str, not a dict
IsJsonString(content) ==
    /\ Len(content) = 1
    /\ LET l == content[1]
       IN  /\ Len(l) >= 2
           /\ l[1] = "\"" /\ l[Len(l)] = "\""
           /\ \A k \in 2..(Len(l) - 1) : l[k] # "\""

\* The ways ["']?([^"']+)["']?\s*[:\-]?\s*(\w+) matches in a line: start i,
\* opening quote q1, g symbols in group 1, closing quote q2, s1 blanks, a
\* separator c, s2 blanks, and the word of group 2 starting at GroupTwoAt
GroupOneAt(m) == m.i + m.q1
GroupTwoAt(m) == m.i + m.q1 + m.g + m.q2 + m.s1 + m.c + m.s2

Matches(line) ==
    LET n == Len(line)
    IN  {m \in [i : 1..n, q1 : 0..1, g : 1..n, q2 : 0..1,
                s1 : 0..n, c : 0..1, s2 : 0..n] :
            /\ GroupTwoAt(m) <= n
            /\ m.q1 = 1 => line[m.i] \in Quotes
            /\ \A k \in GroupOneAt(m)..(GroupOneAt(m) + m.g - 1) : line[k] \notin Quotes
            /\ m.q2 = 1 => line[GroupOneAt(m) + m.g] \in Quotes
            /\ \A k \in 1..m.s1 : line[GroupOneAt(m) + m.g + m.q2 + k - 1] \in Spaces
            /\ m.c = 1 => line[GroupOneAt(m) + m.g + m.q2 + m.s1] \in Separators
            /\ \A k \in 1..m.s2 : line[GroupTwoAt(m) - k] \in Spaces
            /\ IsWord(line[GroupTwoAt(m)])}

\* re.search tries the leftmost start first, and at a start every quantifier
\* takes as much as it can before it gives back
MatchKey(m) == <<m.i, 1 - m.q1, 0 - m.g, 1 - m.q2, 0 - m.s1, 1 - m.c, 0 - m.s2>>

RECURSIVE LexLess(_, _)
LexLess(a, b) ==
    /\ a # <<>>
    /\ \/ Head(a) < Head(b)
       \/ Head(a) = Head(b) /\ LexLess(Tail(a), Tail(b))

FirstMatch(line) == CHOOSE m \in Matches(line) :
    \A o \in Matches(line) : o = m \/ LexLess(MatchKey(m), MatchKey(o))

RECURSIVE WordRun(_, _)
WordRun(line, from) ==
    IF from <= Len(line) /\ IsWord(line[from])
    THEN <<line[from]>> \o WordRun(line, from + 1) ELSE <<>>

\* _fallback_text_parsing, one line
FallbackLine(raw) ==
    LET line == Strip(raw)
    IN  IF line = <<>> \/ line[1] \in {"{", "["} \/ Matches(line) = {}
        THEN <<>>
        ELSE LET m == FirstMatch(line)
                 name == Strip(SubSeq(line, GroupOneAt(m), GroupOneAt(m) + m.g - 1))
                 entity_type == Strip(WordRun(line, GroupTwoAt(m)))
             IN  IF Len(name) >= MinNameLen
                 THEN <<[name |-> name, type |-> entity_type,
                         confidence |-> FallbackConfidence]>>
                 ELSE <<>>

\* _fallback_text_parsing
_fallback_text_parsing(content) ==
    Concat([k \in 1..Len(content) |-> FallbackLine(content[k])])

\* the validation loop of _llm_extract_entities_structured
ValidEntities(ents) ==
    LET valid == SelectSeq(ents, LAMBDA e : "name" \in DOMAIN e /\ "type" \in DOMAIN e)
    IN  [k \in 1..Len(valid) |->
            [name |-> Strip(valid[k].name),
             type |-> Strip(valid[k].type),
             confidence |-> IF "confidence" \in DOMAIN valid[k]
                            THEN valid[k].confidence ELSE DefaultConfidence]]

\* a JSON value that is not a string (null, a number), written as the one
\* symbol no text holds
Null == <<"null">>

IsString(v) == v # Null

\* entity["name"].strip() or entity["type"].strip() raises AttributeError
StripRaises(ents) ==
    \E k \in 1..Len(ents) :
        /\ "name" \in DOMAIN ents[k] /\ "type" \in DOMAIN ents[k]
        /\ ~IsString(ents[k].name) \/ ~IsString(ents[k].type)

\* _llm_extract_entities_structured, from the model's response on; an
\* exception of the validation loop is caught at line 235
_llm_extract_entities_structured(resp) ==
    CASE resp.kind = "raise" -> <<>>
      [] resp.kind = "json" ->
            IF StripRaises(resp.entities) THEN <<>> ELSE ValidEntities(resp.entities)
      [] resp.kind = "notobject" -> <<>>
      [] resp.kind = "text" ->
            IF IsJsonString(resp.lines) THEN <<>>
            ELSE _fallback_text_parsing(resp.lines)

-----------------------------------------------------------------------------
(* _extract_keywords *)

stop_words == {<<"de">>, <<"le">>, <<"shi">>, <<"wo">>, <<"you">>,
               <<"shen", "me">>, <<"zen", "me">>, <<"ru", "he">>,
               <<"ying", "gai">>, <<"ke", "neng">>, <<"zen", "me", "ban">>,
               <<"hui">>, <<"neng">>, <<"yao">>, <<"ma">>, <<"ne">>}

\* re.findall(r'[一-龥]+', question): the maximal runs of CJK symbols
RECURSIVE FindWords(_, _)
FindWords(q, run) ==
    IF q = <<>> THEN (IF run = <<>> THEN <<>> ELSE <<run>>)
    ELSE IF IsCJK(Head(q)) THEN FindWords(Tail(q), Append(run, Head(q)))
    ELSE (IF run = <<>> THEN <<>> ELSE <<run>>) \o FindWords(Tail(q), <<>>)

Singles(words) ==
    SelectSeq(words, LAMBDA w : w \notin stop_words
                                /\ SingleMinLen <= Len(w) /\ Len(w) <= SingleMaxLen)

\* the combination loop without its stop-word tests
CombosAtUnfiltered(words, i) ==
    LET combo2 == words[i] \o words[i + 1]
        two == IF SingleMinLen <= Len(combo2) /\ Len(combo2) <= SingleMaxLen
               THEN <<combo2>> ELSE <<>>
        three == IF i + 2 <= Len(words)
                 THEN LET combo3 == combo2 \o words[i + 2]
                      IN  IF Combo3MinLen <= Len(combo3) /\ Len(combo3) <= Combo3MaxLen
                          THEN <<combo3>> ELSE <<>>
                 ELSE <<>>
    IN  two \o three

\* the candidates the combination loop appends at position i
CombosAt(words, i) ==
    IF words[i] \in stop_words \/ words[i + 1] \in stop_words THEN <<>>
    ELSE LET combo2 == words[i] \o words[i + 1]
             two == IF SingleMinLen <= Len(combo2) /\ Len(combo2) <= SingleMaxLen
                    THEN <<combo2>> ELSE <<>>
             three == IF i + 2 <= Len(words) /\ words[i + 2] \notin stop_words
                      THEN LET combo3 == combo2 \o words[i + 2]
                           IN  IF Combo3MinLen <= Len(combo3) /\ Len(combo3) <= Combo3MaxLen
                               THEN <<combo3>> ELSE <<>>
                      ELSE <<>>
         IN  two \o three

Combos(words) ==
    IF Len(words) >= 2
    THEN Concat([i \in 1..(Len(words) - 1) |-> CombosAt(words, i)])
    ELSE <<>>

RECURSIVE Unique(_, _)
Unique(s, seenSet) ==
    IF s = <<>> THEN <<>>
    ELSE IF Head(s) \in seenSet THEN Unique(Tail(s), seenSet)
    ELSE <<Head(s)>> \o Unique(Tail(s), seenSet \cup {Head(s)})

\* the list left as it is, unsorted
Unsorted(s, len) == s

\* list.sort(key=len, reverse=True): stable, longest first
RECURSIVE SortByLenDesc(_, _)
SortByLenDesc(s, len) ==
    IF len < 0 THEN <<>>
    ELSE SelectSeq(s, LAMBDA w : Len(w) = len) \o SortByLenDesc(s, len - 1)

MaxLenOf(s) == IF s = <<>> THEN 0
               ELSE CHOOSE n \in {Len(s[k]) : k \in 1..Len(s)} :
                        \A k \in 1..Len(s) : Len(s[k]) <= n

_extract_keywords(q) ==
    LET words == FindWords(q, <<>>)
        unique_keywords == Unique(Singles(words) \o Combos(words), {})
    IN  SortByLenDesc(unique_keywords, MaxLenOf(unique_keywords))

-----------------------------------------------------------------------------
(* The linkers *)

SearchCall(keyword, entity_type, limit) ==
    [op |-> "fuzzy_search_entity", arg |-> keyword, etype |-> entity_type, limit |-> limit]

EntityKey(e) == <<e.name, e.type>>

Keys(s) == [k \in 1..Len(s) |-> EntityKey(s[k])]

\* Accept without the seen_entities test: every match is appended
AcceptNoDedup(acc, match, confidence) ==
    [acc EXCEPT !.seen = @ \cup {EntityKey(match)},
                !.linked = Append(@, [name |-> match.name,
                                      description |-> match.description,
                                      type |-> match.type,
                                      llm_confidence |-> confidence])]

\* if entity_key not in seen_entities: add it, set llm_confidence, append
Accept(acc, match, confidence) ==
    IF EntityKey(match) \in acc.seen THEN acc
    ELSE [acc EXCEPT !.seen = @ \cup {EntityKey(match)},
                     !.linked = Append(@, [name |-> match.name,
                                           description |-> match.description,
                                           type |-> match.type,
                                           llm_confidence |-> confidence])]

\* strategy 2 of _link_entities_to_neo4j for a mention with a known type: the
\* first fuzzy match of that type that is not linked yet, else (for-else) the
\* first fuzzy match
AcceptFuzzyTyped(acc, fuzzy_matches, neo4j_type, confidence) ==
    LET open == {k \in 1..Len(fuzzy_matches) :
                    /\ fuzzy_matches[k].type = neo4j_type
                    /\ EntityKey(fuzzy_matches[k]) \notin acc.seen}
    IN  IF open # {}
        THEN Accept(acc, fuzzy_matches[CHOOSE k \in open : \A j \in open : k <= j],
                    confidence)
        ELSE Accept(acc, fuzzy_matches[1], confidence)

\* a linker whose typed lookup never settles a mention
ExactNeverSettles(acc, exact_match) == FALSE

\* whether the typed lookup settles the mention (the `continue` of line 315)
ExactSettles(acc, exact_match) ==
    exact_match # <<>> /\ EntityKey(exact_match[1]) \notin acc.seen

\* an iteration that links the first two fuzzy results of a mention
LinkMentionTwice(st, acc, entity) ==
    LET entity_name == Strip(entity.name)
        fuzzy_matches == fuzzy_search_entity(st, entity_name, NoType, FuzzyLimit)
        fuzzyCall == SearchCall(entity_name, NoType, FuzzyLimit)
        first == IF fuzzy_matches = <<>> THEN acc
                 ELSE Accept(acc, fuzzy_matches[1], entity.confidence)
        both == IF Len(fuzzy_matches) < 2 THEN first
                ELSE Accept(first, fuzzy_matches[2], entity.confidence)
    IN  IF entity_name = <<>> THEN [acc EXCEPT !.issued = <<>>]
        ELSE [both EXCEPT !.issued = <<fuzzyCall>>]

\* one iteration of the loop of _link_entities_to_neo4j; acc is
\* linked_entities and seen_entities, `issued` the lookups of this iteration
LinkMention(st, acc, entity) ==
    LET entity_name == Strip(entity.name)
        entity_type == Strip(entity.type)
        confidence == entity.confidence
        neo4j_type == TypeMapping(entity_type)
        exact_match == fuzzy_search_entity(st, entity_name, neo4j_type, ExactLimit)
        fuzzy_matches == fuzzy_search_entity(st, entity_name, NoType, FuzzyLimit)
        exactCall == SearchCall(entity_name, neo4j_type, ExactLimit)
        fuzzyCall == SearchCall(entity_name, NoType, FuzzyLimit)
    IN  IF entity_name = <<>> THEN [acc EXCEPT !.issued = <<>>]
        ELSE IF neo4j_type # NoType /\ ExactSettles(acc, exact_match)
        THEN [Accept(acc, exact_match[1], confidence) EXCEPT !.issued = <<exactCall>>]
        ELSE LET issued == IF neo4j_type # NoType THEN <<exactCall, fuzzyCall>>
                           ELSE <<fuzzyCall>>
             IN  IF fuzzy_matches = <<>> THEN [acc EXCEPT !.issued = issued]
                 ELSE IF neo4j_type # NoType
                 THEN [AcceptFuzzyTyped(acc, fuzzy_matches, neo4j_type, confidence)
                          EXCEPT !.issued = issued]
                 ELSE [Accept(acc, fuzzy_matches[1], confidence)
                          EXCEPT !.issued = issued]

\* the types looked up from the last one to the first
TypesReversed == <<"Department", "Check", "Drug", "Disease", "Symptom">>

entity_types_priority == <<"Symptom", "Disease", "Drug", "Check", "Department">>

\* for entity in entities: append it unless its key was seen
RECURSIVE AcceptAll(_, _)
AcceptAll(acc, found) ==
    IF found = <<>> THEN acc
    ELSE AcceptAll(
            IF EntityKey(Head(found)) \in acc.seen THEN acc
            ELSE [acc EXCEPT !.seen = @ \cup {EntityKey(Head(found))},
                             !.linked = Append(@, Head(found))],
            Tail(found))

\* the inner loop of _rule_based_entity_extraction over the types, from the
\* t-th type on
RECURSIVE LinkKeywordFrom(_, _, _, _)
LinkKeywordFrom(st, acc, keyword, t) ==
    IF t > Len(entity_types_priority) THEN acc
    ELSE LinkKeywordFrom(st,
            [AcceptAll(acc, fuzzy_search_entity(st, keyword, entity_types_priority[t],
                                                RuleLimit))
                EXCEPT !.issued = Append(acc.issued,
                            SearchCall(keyword, entity_types_priority[t], RuleLimit))],
            keyword, t + 1)

\* one iteration of the keyword loop of _rule_based_entity_extraction
LinkKeyword(st, acc, keyword) ==
    LinkKeywordFrom(st, [acc EXCEPT !.issued = <<>>], keyword, 1)

-----------------------------------------------------------------------------
(* _retrieve_subgraph *)

EmptySubgraph ==
    [diseases |-> <<>>, symptoms |-> <<>>, drugs |-> <<>>, checks |-> <<>>,
     departments |-> <<>>, relationships |-> <<>>]

EmptySeen ==
    [diseases |-> {}, symptoms |-> {}, drugs |-> {}, checks |-> {}, departments |-> {}]

RankCall(name) ==
    [op |-> "find_diseases_by_symptoms", arg |-> name, etype |-> NoType, limit |-> TopK]

FetchCall(name) ==
    [op |-> "get_disease_full_context", arg |-> name, etype |-> NoType, limit |-> 0]

\* if context: (a dict is true unless it is empty)
Truthy(dict) == DOMAIN dict # {}

\* context.get(key, [])
GetList(dict, key) == IF key \in DOMAIN dict THEN dict[key] ELSE <<>>

\* for x in list[:cap]: if x.get("name") and x.get("name") not in seen: add, append
RECURSIVE Collect(_, _)
Collect(acc, entries) ==
    IF entries = <<>> THEN acc
    ELSE Collect(
            IF Head(entries).name # <<>> /\ Head(entries).name \notin acc.seen
            THEN [seen |-> acc.seen \cup {Head(entries).name},
                  list |-> Append(acc.list, Head(entries))]
            ELSE acc,
            Tail(entries))

\* the collecting loop without the [:cap] slice
CollectUncapped(list, seenSet, entries, cap) ==
    Collect([seen |-> seenSet, list |-> list], entries)

CollectCapped(list, seenSet, entries, cap) ==
    Collect([seen |-> seenSet, list |-> list], Take(entries, cap))

\* the four collecting loops over one context; x is subgraph and seen sets
MergeContext(x, ctx) ==
    LET sy == CollectCapped(x.sg.symptoms, x.sn.symptoms,
                            GetList(ctx, "symptoms"), SymptomCap)
        dr == CollectCapped(x.sg.drugs, x.sn.drugs, GetList(ctx, "drugs"), DrugCap)
        ch == CollectCapped(x.sg.checks, x.sn.checks, GetList(ctx, "checks"), CheckCap)
        depts == GetList(ctx, "departments")
        de == CollectCapped(x.sg.departments, x.sn.departments,
                            [k \in 1..Len(depts) |-> [name |-> depts[k]]],
                            DepartmentCap)
    IN  [sg |-> [x.sg EXCEPT !.symptoms = sy.list, !.drugs = dr.list,
                             !.checks = ch.list, !.departments = de.list],
         sn |-> [x.sn EXCEPT !.symptoms = sy.seen, !.drugs = dr.seen,
                             !.checks = ch.seen, !.departments = de.seen]]

\* the body of `for disease in diseases` for a disease not seen before
AddRankedDisease(x, disease, ctx) ==
    LET y == [sg |-> [x.sg EXCEPT !.diseases = Append(@, disease)],
              sn |-> [x.sn EXCEPT !.diseases = @ \cup {disease.name}]]
    IN  IF Truthy(ctx) THEN MergeContext(y, ctx) ELSE y

\* the Disease branch without the seen_diseases test
AddDiseaseEntityUnseen(x, entity_name, ctx) ==
    IF ~Truthy(ctx) THEN x
    ELSE MergeContext(
            [sg |-> [x.sg EXCEPT !.diseases = Append(@,
                        [name |-> entity_name,
                         description |-> IF "disease" \in DOMAIN ctx
                                         THEN ctx.disease.desc ELSE ""])],
             sn |-> [x.sn EXCEPT !.diseases = @ \cup {entity_name}]],
            ctx)

\* the branch entity_type == "Disease"
AddDiseaseEntity(x, entity_name, ctx) ==
    IF ~Truthy(ctx) THEN x
    ELSE LET disease_info == IF "disease" \in DOMAIN ctx THEN ctx.disease ELSE [k \in {} |-> k]
             y == IF entity_name \in x.sn.diseases THEN x
                  ELSE [sg |-> [x.sg EXCEPT !.diseases = Append(@,
                                   [name |-> entity_name,
                                    description |-> IF "desc" \in DOMAIN disease_info
                                                    THEN disease_info.desc ELSE ""])],
                        sn |-> [x.sn EXCEPT !.diseases = @ \cup {entity_name}]]
         IN  MergeContext(y, ctx)

-----------------------------------------------------------------------------
(* _build_knowledge_context, _summarize_context, _extract_citations *)

\* dict.get(key, default)
Get(dict, key, default) == IF key \in DOMAIN dict THEN dict[key] ELSE default

Header(section, newline) ==
    IF newline THEN <<[kind |-> "blank"], [kind |-> "header", section |-> section]>>
    ELSE <<[kind |-> "header", section |-> section]>>

\* "- name", then ": desc" and " (label: num or text)" for the parts that are true
EntryLine(section, name, desc, num, text) ==
    [kind |-> "entry", section |-> section, name |-> name,
     desc |-> desc, num |-> num, text |-> text]

\* the disease section without the [:5] slice
DiseaseLinesUncapped(sg) ==
    IF sg.diseases = <<>> THEN <<>>
    ELSE Header("diseases", FALSE) \o
         [k \in 1..Len(sg.diseases) |->
            EntryLine("diseases", sg.diseases[k].name,
                      Get(sg.diseases[k], "description", Get(sg.diseases[k], "desc", "")),
                      Get(sg.diseases[k], "match_score", 0), "")]

DiseaseLines(sg) ==
    IF sg.diseases = <<>> THEN <<>>
    ELSE Header("diseases", FALSE) \o
         [k \in 1..Len(Take(sg.diseases, ContextDiseaseCap)) |->
            EntryLine("diseases", sg.diseases[k].name,
                      Get(sg.diseases[k], "description", Get(sg.diseases[k], "desc", "")),
                      Get(sg.diseases[k], "match_score", 0), "")]

SymptomLines(sg) ==
    IF sg.symptoms = <<>> THEN <<>>
    ELSE Header("symptoms", TRUE) \o
         [k \in 1..Len(Take(sg.symptoms, ContextSymptomCap)) |->
            EntryLine("symptoms", sg.symptoms[k].name, "",
                      Get(sg.symptoms[k], "weight", 0), "")]

DrugLines(sg) ==
    IF sg.drugs = <<>> THEN <<>>
    ELSE Header("drugs", TRUE) \o
         [k \in 1..Len(Take(sg.drugs, ContextDrugCap)) |->
            EntryLine("drugs", sg.drugs[k].name, "", 0, Get(sg.drugs[k], "usage", ""))]

CheckLines(sg) ==
    IF sg.checks = <<>> THEN <<>>
    ELSE Header("checks", TRUE) \o
         [k \in 1..Len(Take(sg.checks, ContextCheckCap)) |->
            EntryLine("checks", sg.checks[k].name, "", 0,
                      Get(sg.checks[k], "priority", ""))]

DepartmentLines(sg) ==
    IF sg.departments = <<>> THEN <<>>
    ELSE LET named == SelectSeq(Take(sg.departments, ContextDepartmentCap),
                                LAMBDA d : Get(d, "name", <<>>) # <<>>)
         IN  Header("departments", TRUE) \o
             [k \in 1..Len(named) |-> EntryLine("departments", named[k].name, "", 0, "")]

\* the serializer with the symptom block moved before the disease block
SymptomsFirst(sg) ==
    LET lines == SymptomLines(sg) \o DiseaseLines(sg) \o DrugLines(sg)
                 \o CheckLines(sg) \o DepartmentLines(sg)
    IN  IF lines = <<>> THEN <<[kind |-> "sentinel"]>> ELSE lines

\* the lines of the returned text
_build_knowledge_context(sg) ==
    LET lines == DiseaseLines(sg) \o SymptomLines(sg) \o DrugLines(sg)
                 \o CheckLines(sg) \o DepartmentLines(sg)
    IN  IF lines = <<>> THEN <<[kind |-> "sentinel"]>> ELSE lines

_summarize_context(ctxLines) ==
    SelectSeq(Take(ctxLines, SummaryLines), LAMBDA l : l.kind # "blank")

\* a citation list that goes on with the drugs of the subgraph
CitationsWithDrugs(sg) ==
    [k \in 1..Len(Take(sg.diseases, CitedDiseases)) |->
        [type |-> "Disease", name |-> sg.diseases[k].name,
         description |-> Get(sg.diseases[k], "description",
                             Get(sg.diseases[k], "desc", ""))]]
    \o
    [k \in 1..Len(Take(sg.symptoms, CitedSymptoms)) |->
        [type |-> "Symptom", name |-> sg.symptoms[k].name,
         weight |-> Get(sg.symptoms[k], "weight", 0)]]
    \o
    [k \in 1..Len(Take(sg.drugs, CitedSymptoms)) |->
        [type |-> "Drug", name |-> sg.drugs[k].name]]

_extract_citations(sg) ==
    [k \in 1..Len(Take(sg.diseases, CitedDiseases)) |->
        [type |-> "Disease", name |-> sg.diseases[k].name,
         description |-> Get(sg.diseases[k], "description",
                             Get(sg.diseases[k], "desc", ""))]]
    \o
    [k \in 1..Len(Take(sg.symptoms, CitedSymptoms)) |->
        [type |-> "Symptom", name |-> sg.symptoms[k].name,
         weight |-> Get(sg.symptoms[k], "weight", 0)]]

-----------------------------------------------------------------------------
(* Inputs *)

QChars == {"tou", "tong", "shi", ","}

\* the questions asked: every short one, and one with two keywords that are
\* both part of one node name
Questions == SeqsUpTo(QChars, MaxQLen) \cup {<<"pian", "tou", ",", "tou", "tong">>}

\* the objects of the "entities" array of a JSON response
JsonEntities ==
    {[name |-> n, type |-> Label("Symptom"), confidence |-> 9] :
        n \in {<<" ">>, <<"tou">>, <<"tou", "tong">>, <<"tong", "tou">>}}
    \cup {[name |-> <<"tou", "tong">>, type |-> Label("Thing"), confidence |-> 9],
          [name |-> <<"tou", "tong">>, type |-> Label("Disease")],
          [name |-> <<"tou", "tong">>],
          [type |-> Label("Symptom")]}

LineChars == {"tou", "tong", ":"}

\* a line that is a JSON document, but a string and not an object
QuotedLine == <<"\"", "tou", "tong", "\"">>

LLMResponses ==
    {[kind |-> "raise"], [kind |-> "notobject"]}
    \cup {[kind |-> "json", entities |-> es] : es \in SeqsUpTo(JsonEntities, MaxMentions)}
    \cup {[kind |-> "text", lines |-> <<l>>] :
            l \in SeqsUpTo(LineChars, MaxLineLen) \cup {QuotedLine}}

FocusQuestions == {<<>>, <<"tou", "tong">>}

FocusResponses ==
    {[kind |-> "raise"], [kind |-> "notobject"],
     [kind |-> "json", entities |-> <<>>],
     [kind |-> "json", entities |->
        <<[name |-> <<"tong", "tou">>, type |-> Label("Symptom"), confidence |-> 9]>>],
     [kind |-> "text", lines |-> <<<<"tou", "tong">>>>]}

\* the pairs of question and extraction response the model runs
Scenario(q, r) == q \in FocusQuestions \/ r \in FocusResponses

Node(name, type, description) ==
    [name |-> name, type |-> type, description |-> description]

NodeNames(ns, type) == {ns[k].name : k \in {j \in 1..Len(ns) : ns[j].type = type}}

NoRelations == [symptoms |-> <<>>, drugs |-> <<>>, checks |-> <<>>, departments |-> <<>>]

\* the store holding the nodes ns, in this scan order, and the edges of kb
\* both of whose ends are among them
StoreOf(ns, kb) ==
    [nodes |-> ns,
     rel |-> [d \in NodeNames(ns, "Disease") |->
        LET r == IF d \in DOMAIN kb THEN kb[d] ELSE NoRelations
        IN  [symptoms |-> SelectSeq(r.symptoms,
                            LAMBDA e : e.name \in NodeNames(ns, "Symptom")),
             drugs |-> SelectSeq(r.drugs, LAMBDA e : e.name \in NodeNames(ns, "Drug")),
             checks |-> SelectSeq(r.checks, LAMBDA e : e.name \in NodeNames(ns, "Check")),
             departments |-> SelectSeq(r.departments,
                            LAMBDA e : e \in NodeNames(ns, "Department"))]]]

Injective(s) == \A i, j \in 1..Len(s) : s[i] = s[j] => i = j

QueryNodes ==
    {Node(<<"tou", "tong">>, "Symptom", ""),
     Node(<<"pian", "tou", "tong">>, "Disease", "migraine"),
     Node(<<"tou", "tong", "pian">>, "Drug", "")}

QueryKb ==
    [d \in {<<"pian", "tou", "tong">>} |->
        [symptoms |-> <<[name |-> <<"tou", "tong">>, weight |-> 9]>>,
         drugs |-> <<[name |-> <<"tou", "tong", "pian">>, usage |-> ""]>>,
         checks |-> <<>>,
         departments |-> <<>>]]

QueryStores ==
    {StoreOf(ns, QueryKb) : ns \in {s \in SeqsUpTo(QueryNodes, MaxNodes) : Injective(s)}}

\* numbered names, for the long lists of a context
Numbered(prefix, k) == <<prefix, ToString(k)>>

Weights == {8, 9}

ExpandKb(a, b, c) ==
    [d \in {<<"gan", "mao">>, <<"pian", "tou", "tong">>} |->
        IF d = <<"gan", "mao">>
        THEN [symptoms |-> <<[name |-> <<"tou", "tong">>, weight |-> a],
                             [name |-> <<"fa", "re">>, weight |-> b]>>
                           \o [k \in 1..(MaxCtxLen - 2) |->
                                 [name |-> Numbered("s", k), weight |-> 8]],
              drugs |-> [k \in 1..MaxCtxLen |-> [name |-> Numbered("r", k), usage |-> "oral"]],
              checks |-> [k \in 1..MaxCtxLen |-> [name |-> Numbered("c", k), priority |-> ""]],
              departments |-> [k \in 1..MaxCtxLen |-> Numbered("d", k)]]
        ELSE [symptoms |-> <<[name |-> <<"tou", "tong">>, weight |-> c],
                             [name |-> Numbered("s", 1), weight |-> 8]>>,
              drugs |-> <<[name |-> <<"tou", "tong", "pian">>, usage |-> ""],
                          [name |-> Numbered("r", 1), usage |-> "oral"]>>,
              checks |-> <<[name |-> Numbered("c", 1), priority |-> ""]>>,
              departments |-> <<Numbered("d", MaxCtxLen), Numbered("d", 1)>>]]

ExpandNodes ==
    <<Node(<<"gan", "mao">>, "Disease", "cold"),
      Node(<<"pian", "tou", "tong">>, "Disease", "migraine"),
      Node(<<"tou", "tong">>, "Symptom", ""),
      Node(<<"fa", "re">>, "Symptom", ""),
      Node(<<"tou", "tong", "pian">>, "Drug", "")>>
    \o [k \in 1..MaxCtxLen |-> Node(Numbered("s", k), "Symptom", "")]
    \o [k \in 1..MaxCtxLen |-> Node(Numbered("r", k), "Drug", "")]
    \o [k \in 1..MaxCtxLen |-> Node(Numbered("c", k), "Check", "")]
    \o [k \in 1..MaxCtxLen |-> Node(Numbered("d", k), "Department", "")]

ExpandStores == {StoreOf(ExpandNodes, ExpandKb(a, b, c)) : a, b, c \in Weights}

\* linked entities handed to the expander; "shi mian" names no node
ExpandEntities ==
    {Node(<<"tou", "tong">>, "Symptom", ""),
     Node(<<"fa", "re">>, "Symptom", ""),
     Node(<<"gan", "mao">>, "Disease", "cold"),
     Node(<<"pian", "tou", "tong">>, "Disease", "migraine"),
     Node(<<"shi", "mian">>, "Disease", ""),
     Node(<<"tou", "tong", "pian">>, "Drug", ""),
     Node(<<"c", "1">>, "Check", "")}

-----------------------------------------------------------------------------
(* query and the operations it runs *)

NoEntityResult ==
    [answer |-> "no entity", entities |-> <<>>, context_summary |-> <<>>,
     citations |-> <<>>]

ErrorResult ==
    [answer |-> "error", entities |-> <<>>, context_summary |-> <<>>,
     citations |-> <<>>]

ModelCall(what) == [op |-> "llm.invoke", arg |-> <<what>>, etype |-> NoType, limit |-> 0]

None == 0

NoPeer == [pc |-> "none"]

\* the service has been created once, no accessor is being called and no
\* second call is running
Quiet ==
    /\ _graphrag_service_instance = 1
    /\ _neo4j_service_instance = 1
    /\ constructed = [graphrag |-> 1, neo4j |-> 1]
    /\ callers = <<>>
    /\ peer = NoPeer

Fresh ==
    /\ llmResp = [kind |-> "none"]
    /\ genResp = "none"
    /\ mentions = <<>>
    /\ keywords = <<>>
    /\ idx = 1
    /\ linked = <<>>
    /\ seen = {}
    /\ source = "none"
    /\ ranked = <<>>
    /\ ridx = 1
    /\ subgraph = EmptySubgraph
    /\ seenNames = EmptySeen
    /\ context = <<>>
    /\ answer = ""
    /\ calls = <<>>
    /\ result = [answer |-> ""]

\* a caller has called query(question)
Init ==
    /\ Quiet
    /\ max_hops = DefaultMaxHops
    /\ pc = "query"
    /\ question \in Questions
    /\ store \in QueryStores
    /\ entities = <<>>
    /\ Fresh

\* an extraction whose model-call error is not caught inside the extractor
LLMExtractPropagates ==
    /\ pc = "query"
    /\ \E r \in LLMResponses :
        /\ Scenario(question, r)
        /\ llmResp' = r
        /\ mentions' = _llm_extract_entities_structured(r)
        /\ pc' = IF r.kind = "raise" THEN "except"
                 ELSE IF _llm_extract_entities_structured(r) # <<>> THEN "link" ELSE "rule"
    /\ calls' = Append(calls, ModelCall("extract"))
    /\ UNCHANGED <<others, max_hops, question, genResp, store, keywords, idx, linked, seen, source,
                   entities, ranked, ridx, subgraph, seenNames, context, answer, result>>

\* _extract_and_link_entities, line 114: the model is asked and its response parsed
LLMExtract ==
    /\ pc = "query"
    /\ \E r \in LLMResponses :
        /\ Scenario(question, r)
        /\ llmResp' = r
        /\ mentions' = _llm_extract_entities_structured(r)
        /\ pc' = IF _llm_extract_entities_structured(r) # <<>> THEN "link" ELSE "rule"
    /\ calls' = Append(calls, ModelCall("extract"))
    /\ UNCHANGED <<others, max_hops, question, genResp, store, keywords, idx, linked, seen, source,
                   entities, ranked, ridx, subgraph, seenNames, context, answer, result>>

Acc == [linked |-> linked, seen |-> seen, issued |-> <<>>]

\* a linker that keeps a mention no node matches as an entity of its own
LinkStepKeepsUnmatched ==
    /\ pc = "link" /\ idx <= Len(mentions)
    /\ LET acc == LinkMention(store, Acc, mentions[idx])
           kept == [name |-> mentions[idx].name, description |-> "",
                    type |-> NoType, llm_confidence |-> mentions[idx].confidence]
       IN  /\ linked' = IF fuzzy_search_entity(store, Strip(mentions[idx].name),
                                               NoType, FuzzyLimit) = <<>>
                        THEN Append(acc.linked, kept) ELSE acc.linked
           /\ seen' = acc.seen
           /\ calls' = calls \o acc.issued
    /\ idx' = idx + 1
    /\ UNCHANGED <<others, max_hops, pc, question, llmResp, genResp, store, mentions, keywords, source,
                   entities, ranked, ridx, subgraph, seenNames, context, answer, result>>

\* one mention of _link_entities_to_neo4j
LinkStep ==
    /\ pc = "link" /\ idx <= Len(mentions)
    /\ LET acc == LinkMention(store, Acc, mentions[idx])
       IN  /\ linked' = acc.linked
           /\ seen' = acc.seen
           /\ calls' = calls \o acc.issued
    /\ idx' = idx + 1
    /\ UNCHANGED <<others, max_hops, pc, question, llmResp, genResp, store, mentions, keywords, source,
                   entities, ranked, ridx, subgraph, seenNames, context, answer, result>>

\* a lookup of that mention raises
LinkRaise ==
    /\ pc = "link" /\ idx <= Len(mentions)
    /\ \E n \in 1..Len(LinkMention(store, Acc, mentions[idx]).issued) :
        calls' = calls \o SubSeq(LinkMention(store, Acc, mentions[idx]).issued, 1, n)
    /\ pc' = "except"
    /\ UNCHANGED <<others, max_hops, question, llmResp, genResp, store, mentions, keywords, idx, linked,
                   seen, source, entities, ranked, ridx, subgraph, seenNames, context,
                   answer, result>>

\* an orchestrator that does not try the second strategy once the model has
\* named something
LinkDoneStops ==
    /\ pc = "link" /\ idx > Len(mentions)
    /\ entities' = linked
    /\ source' = IF linked # <<>> THEN "llm" ELSE source
    /\ pc' = "check"
    /\ UNCHANGED <<others, max_hops, question, llmResp, genResp, store, mentions, keywords, idx, linked,
                   seen, ranked, ridx, subgraph, seenNames, context, answer, calls,
                   result>>

\* _extract_and_link_entities, lines 120-122
LinkDone ==
    /\ pc = "link" /\ idx > Len(mentions)
    /\ IF linked # <<>>
       THEN /\ entities' = linked
            /\ source' = "llm"
            /\ pc' = "check"
       ELSE /\ pc' = "rule"
            /\ UNCHANGED <<entities, source>>
    /\ UNCHANGED <<others, max_hops, question, llmResp, genResp, store, mentions, keywords, idx, linked,
                   seen, ranked, ridx, subgraph, seenNames, context, answer, calls,
                   result>>

\* _rule_based_entity_extraction, lines 365-374
RuleStart ==
    /\ pc = "rule"
    /\ keywords' = _extract_keywords(question)
    /\ idx' = 1
    /\ linked' = <<>>
    /\ seen' = {}
    /\ pc' = "rulelink"
    /\ UNCHANGED <<others, max_hops, question, llmResp, genResp, store, mentions, source, entities,
                   ranked, ridx, subgraph, seenNames, context, answer, calls, result>>

\* one keyword of _rule_based_entity_extraction
RuleStep ==
    /\ pc = "rulelink" /\ idx <= Len(keywords)
    /\ LET acc == LinkKeyword(store, Acc, keywords[idx])
       IN  /\ linked' = acc.linked
           /\ seen' = acc.seen
           /\ calls' = calls \o acc.issued
    /\ idx' = idx + 1
    /\ UNCHANGED <<others, max_hops, pc, question, llmResp, genResp, store, mentions, keywords, source,
                   entities, ranked, ridx, subgraph, seenNames, context, answer, result>>

\* a lookup of that keyword raises
RuleRaise ==
    /\ pc = "rulelink" /\ idx <= Len(keywords)
    /\ \E n \in 1..Len(entity_types_priority) :
        calls' = calls \o SubSeq(LinkKeyword(store, Acc, keywords[idx]).issued, 1, n)
    /\ pc' = "except"
    /\ UNCHANGED <<others, max_hops, question, llmResp, genResp, store, mentions, keywords, idx, linked,
                   seen, source, entities, ranked, ridx, subgraph, seenNames, context,
                   answer, result>>

\* _extract_and_link_entities, lines 127-132
RuleDone ==
    /\ pc = "rulelink" /\ idx > Len(keywords)
    /\ entities' = linked
    /\ source' = IF linked # <<>> THEN "rule" ELSE "none"
    /\ pc' = "check"
    /\ UNCHANGED <<others, max_hops, question, llmResp, genResp, store, mentions, keywords, idx, linked,
                   seen, ranked, ridx, subgraph, seenNames, context, answer, calls,
                   result>>

\* a query that goes on to the expansion with no entity
NoEntitiesGoesOn ==
    /\ pc = "check" /\ entities = <<>>
    /\ idx' = 1
    /\ pc' = "expand"
    /\ UNCHANGED <<others, max_hops, question, llmResp, genResp, store, mentions, keywords, linked,
                   seen, source, entities, ranked, ridx, subgraph, seenNames, context,
                   answer, calls, result>>

\* query, lines 60-66
NoEntities ==
    /\ pc = "check" /\ entities = <<>>
    /\ result' = NoEntityResult
    /\ pc' = "done"
    /\ UNCHANGED <<others, max_hops, question, llmResp, genResp, store, mentions, keywords, idx, linked,
                   seen, source, entities, ranked, ridx, subgraph, seenNames, context,
                   answer, calls>>

\* query, line 69: _retrieve_subgraph is entered
StartExpand ==
    /\ pc = "check" /\ entities # <<>>
    /\ idx' = 1
    /\ subgraph' = EmptySubgraph
    /\ seenNames' = EmptySeen
    /\ pc' = "expand"
    /\ UNCHANGED <<others, max_hops, question, llmResp, genResp, store, mentions, keywords, linked,
                   seen, source, entities, ranked, ridx, context, answer, calls, result>>

X == [sg |-> subgraph, sn |-> seenNames]

\* _retrieve_subgraph, line 475: a Symptom entity starts a ranked search
ExpandSymptom ==
    /\ pc = "expand" /\ idx <= Len(entities)
    /\ entities[idx].type = "Symptom"
    /\ ranked' \in find_diseases_by_symptoms(store, <<entities[idx].name>>, TopK)
    /\ ridx' = 1
    /\ calls' = Append(calls, RankCall(entities[idx].name))
    /\ pc' = "diseases"
    /\ UNCHANGED <<others, max_hops, question, llmResp, genResp, store, mentions, keywords, idx, linked,
                   seen, source, entities, subgraph, seenNames, context, answer, result>>

\* the ranked search raises
ExpandSymptomRaise ==
    /\ pc = "expand" /\ idx <= Len(entities)
    /\ entities[idx].type = "Symptom"
    /\ calls' = Append(calls, RankCall(entities[idx].name))
    /\ pc' = "except"
    /\ UNCHANGED <<others, max_hops, question, llmResp, genResp, store, mentions, keywords, idx, linked,
                   seen, source, entities, ranked, ridx, subgraph, seenNames, context,
                   answer, result>>

\* a ranked loop that fetches the context of a disease seen before as well
RankedStepRefetches ==
    /\ pc = "diseases" /\ ridx <= Len(ranked)
    /\ LET y == IF ranked[ridx].name \in seenNames.diseases
                THEN MergeContext(X, get_disease_full_context(store, ranked[ridx].name))
                ELSE AddRankedDisease(X, ranked[ridx],
                        get_disease_full_context(store, ranked[ridx].name))
       IN  /\ subgraph' = y.sg
           /\ seenNames' = y.sn
           /\ calls' = Append(calls, FetchCall(ranked[ridx].name))
    /\ ridx' = ridx + 1
    /\ UNCHANGED <<others, max_hops, pc, question, llmResp, genResp, store, mentions,
                   keywords, idx, linked, seen, source, entities, ranked, context,
                   answer, result>>

\* lines 477-507: one disease of the ranked list
RankedStep ==
    /\ pc = "diseases" /\ ridx <= Len(ranked)
    /\ IF ranked[ridx].name \in seenNames.diseases
       THEN UNCHANGED <<subgraph, seenNames, calls>>
       ELSE LET y == AddRankedDisease(X, ranked[ridx],
                        get_disease_full_context(store, ranked[ridx].name))
            IN  /\ subgraph' = y.sg
                /\ seenNames' = y.sn
                /\ calls' = Append(calls, FetchCall(ranked[ridx].name))
    /\ ridx' = ridx + 1
    /\ UNCHANGED <<others, max_hops, pc, question, llmResp, genResp, store, mentions, keywords, idx,
                   linked, seen, source, entities, ranked, context, answer, result>>

\* the context fetch of that disease raises
RankedRaise ==
    /\ pc = "diseases" /\ ridx <= Len(ranked)
    /\ ranked[ridx].name \notin seenNames.diseases
    /\ subgraph' = [subgraph EXCEPT !.diseases = Append(@, ranked[ridx])]
    /\ seenNames' = [seenNames EXCEPT !.diseases = @ \cup {ranked[ridx].name}]
    /\ calls' = Append(calls, FetchCall(ranked[ridx].name))
    /\ pc' = "except"
    /\ UNCHANGED <<others, max_hops, question, llmResp, genResp, store, mentions, keywords, idx, linked,
                   seen, source, entities, ranked, ridx, context, answer, result>>

\* the ranked list is exhausted: next entity
RankedDone ==
    /\ pc = "diseases" /\ ridx > Len(ranked)
    /\ idx' = idx + 1
    /\ pc' = "expand"
    /\ UNCHANGED <<others, max_hops, question, llmResp, genResp, store, mentions, keywords, linked,
                   seen, source, entities, ranked, ridx, subgraph, seenNames, context,
                   answer, calls, result>>

\* a Disease branch that fetches the context only when the hop limit allows a hop
ExpandDiseaseWithinHops ==
    /\ pc = "expand" /\ idx <= Len(entities)
    /\ entities[idx].type = "Disease"
    /\ IF max_hops >= 1
       THEN LET y == AddDiseaseEntity(X, entities[idx].name,
                        get_disease_full_context(store, entities[idx].name))
            IN  /\ subgraph' = y.sg
                /\ seenNames' = y.sn
                /\ calls' = Append(calls, FetchCall(entities[idx].name))
       ELSE UNCHANGED <<subgraph, seenNames, calls>>
    /\ idx' = idx + 1
    /\ UNCHANGED <<others, max_hops, pc, question, llmResp, genResp, store, mentions, keywords,
                   linked, seen, source, entities, ranked, ridx, context, answer, result>>

\* lines 509-543: a Disease entity
ExpandDisease ==
    /\ pc = "expand" /\ idx <= Len(entities)
    /\ entities[idx].type = "Disease"
    /\ LET y == AddDiseaseEntity(X, entities[idx].name,
                    get_disease_full_context(store, entities[idx].name))
       IN  /\ subgraph' = y.sg
           /\ seenNames' = y.sn
    /\ calls' = Append(calls, FetchCall(entities[idx].name))
    /\ idx' = idx + 1
    /\ UNCHANGED <<others, max_hops, pc, question, llmResp, genResp, store, mentions, keywords, linked,
                   seen, source, entities, ranked, ridx, context, answer, result>>

\* the context fetch of the Disease entity raises
ExpandDiseaseRaise ==
    /\ pc = "expand" /\ idx <= Len(entities)
    /\ entities[idx].type = "Disease"
    /\ calls' = Append(calls, FetchCall(entities[idx].name))
    /\ pc' = "except"
    /\ UNCHANGED <<others, max_hops, question, llmResp, genResp, store, mentions, keywords, idx, linked,
                   seen, source, entities, ranked, ridx, subgraph, seenNames, context,
                   answer, result>>

\* a Drug branch that looks the diseases of the drug up in the store
ExpandOtherFetches ==
    /\ pc = "expand" /\ idx <= Len(entities)
    /\ entities[idx].type \notin {"Symptom", "Disease"}
    /\ calls' = IF entities[idx].type = "Drug"
                THEN Append(calls, RankCall(entities[idx].name)) ELSE calls
    /\ idx' = idx + 1
    /\ UNCHANGED <<others, max_hops, pc, question, llmResp, genResp, store, mentions, keywords, linked,
                   seen, source, entities, ranked, ridx, subgraph, seenNames, context,
                   answer, result>>

\* lines 545-549: an entity of any other type
ExpandOther ==
    /\ pc = "expand" /\ idx <= Len(entities)
    /\ entities[idx].type \notin {"Symptom", "Disease"}
    /\ idx' = idx + 1
    /\ UNCHANGED <<others, max_hops, pc, question, llmResp, genResp, store, mentions, keywords, linked,
                   seen, source, entities, ranked, ridx, subgraph, seenNames, context,
                   answer, calls, result>>

\* line 551: return subgraph
ExpandDone ==
    /\ pc = "expand" /\ idx > Len(entities)
    /\ pc' = "expanded"
    /\ UNCHANGED <<others, max_hops, question, llmResp, genResp, store, mentions, keywords, idx, linked,
                   seen, source, entities, ranked, ridx, subgraph, seenNames, context,
                   answer, calls, result>>

\* the serializer cutting the lists of the subgraph in place (del list[cap:])
BuildContextInPlace ==
    /\ pc = "expanded"
    /\ context' = _build_knowledge_context(subgraph)
    /\ subgraph' = [subgraph EXCEPT !.diseases = Take(@, ContextDiseaseCap),
                                    !.symptoms = Take(@, ContextSymptomCap),
                                    !.drugs = Take(@, ContextDrugCap),
                                    !.checks = Take(@, ContextCheckCap),
                                    !.departments = Take(@, ContextDepartmentCap)]
    /\ pc' = "generate"
    /\ UNCHANGED <<others, max_hops, question, llmResp, genResp, store, mentions, keywords, idx, linked,
                   seen, source, entities, ranked, ridx, seenNames, answer,
                   calls, result>>

\* query, lines 75-78
BuildContext ==
    /\ pc = "expanded"
    /\ context' = _build_knowledge_context(subgraph)
    /\ pc' = "generate"
    /\ UNCHANGED <<others, max_hops, question, llmResp, genResp, store, mentions, keywords, idx, linked,
                   seen, source, entities, ranked, ridx, subgraph, seenNames, answer,
                   calls, result>>

\* an answer generation whose failure reaches the outer boundary of query
GenerateEscapes ==
    /\ pc = "generate"
    /\ genResp' \in {"ok", "raise"}
    /\ answer' = IF genResp' = "ok" THEN "generated" ELSE answer
    /\ calls' = Append(calls, ModelCall("generate"))
    /\ pc' = IF genResp' = "ok" THEN "citations" ELSE "except"
    /\ UNCHANGED <<others, max_hops, question, llmResp, store, mentions, keywords, idx,
                   linked, seen, source, entities, ranked, ridx, subgraph, seenNames,
                   context, result>>

\* _generate_answer: the model answers, or the call raises and is caught
Generate ==
    /\ pc = "generate"
    /\ genResp' \in {"ok", "raise"}
    /\ answer' = IF genResp' = "ok" THEN "generated" ELSE "generation error"
    /\ calls' = Append(calls, ModelCall("generate"))
    /\ pc' = "citations"
    /\ UNCHANGED <<others, max_hops, question, llmResp, store, mentions, keywords, idx, linked, seen,
                   source, entities, ranked, ridx, subgraph, seenNames, context, result>>

\* query, lines 84-91
Return ==
    /\ pc = "citations"
    /\ result' = [answer |-> answer,
                  entities |-> entities,
                  context_summary |-> _summarize_context(context),
                  citations |-> _extract_citations(subgraph)]
    /\ pc' = "done"
    /\ UNCHANGED <<others, max_hops, question, llmResp, genResp, store, mentions, keywords, idx, linked,
                   seen, source, entities, ranked, ridx, subgraph, seenNames, context,
                   answer, calls>>

\* an outer boundary that lets the exception through: no result is built
ExceptEscapes ==
    /\ pc = "except"
    /\ pc' = "done"
    /\ UNCHANGED <<others, max_hops, question, llmResp, genResp, store, mentions, keywords, idx, linked,
                   seen, source, entities, ranked, ridx, subgraph, seenNames, context,
                   answer, calls, result>>

\* query, lines 93-100
Except ==
    /\ pc = "except"
    /\ result' = ErrorResult
    /\ pc' = "done"
    /\ UNCHANGED <<others, max_hops, question, llmResp, genResp, store, mentions, keywords, idx, linked,
                   seen, source, entities, ranked, ridx, subgraph, seenNames, context,
                   answer, calls>>

Expand ==
    \/ ExpandSymptom \/ ExpandSymptomRaise
    \/ RankedStep \/ RankedRaise \/ RankedDone
    \/ ExpandDisease \/ ExpandDiseaseRaise
    \/ ExpandOther \/ ExpandDone

Next ==
    \/ LLMExtract
    \/ LinkStep \/ LinkRaise \/ LinkDone
    \/ RuleStart \/ RuleStep \/ RuleRaise \/ RuleDone
    \/ NoEntities \/ StartExpand
    \/ Expand
    \/ BuildContext \/ Generate \/ Return \/ Except

Spec == Init /\ [][Next]_vars

-----------------------------------------------------------------------------
(* _retrieve_subgraph on its own *)

InitExpand ==
    /\ Quiet
    /\ max_hops = DefaultMaxHops
    /\ pc = "expand"
    /\ question = <<>>
    /\ store \in ExpandStores
    /\ entities \in {es \in SeqsUpTo(ExpandEntities, MaxEntities) : Injective(Keys(es))}
    /\ Fresh

SpecExpand == InitExpand /\ [][Expand]_vars

-----------------------------------------------------------------------------
(* Properties of query *)

ResultFields == {"answer", "entities", "context_summary", "citations"}

CallsOf(cs, op) == SelectSeq(cs, LAMBDA c : c.op = op)

Ops(cs) == {cs[k].op : k \in 1..Len(cs)}

\* _rule_based_entity_extraction as a whole: the keyword loop from keyword k on
RECURSIVE LinkKeywordsFrom(_, _, _, _)
LinkKeywordsFrom(st, acc, kws, k) ==
    IF k > Len(kws) THEN acc
    ELSE LinkKeywordsFrom(st, LinkKeyword(st, acc, kws[k]), kws, k + 1)

_rule_based_entity_extraction(st, q) ==
    LinkKeywordsFrom(st, [linked |-> <<>>, seen |-> {}, issued |-> <<>>],
                     _extract_keywords(q), 1).linked

\* the positions of query between two of its calls, and in its handler
Between == {"check", "expanded", "generate", "citations", "except"}

\* C1: query always returns: after every call it made, finished or raised,
\* query has a next step; what it returns has exactly the four fields; and
\* the handler of the outer boundary returns the error answer with no entity
\* and no citation.
C1_QueryAlwaysReturns ==
    /\ [](pc \in Between => ENABLED Next)
    /\ [](pc = "done" => DOMAIN result = ResultFields)
    /\ [][pc = "except" => /\ pc' = "done"
                           /\ result'.answer = "error"
                           /\ result'.entities = <<>>
                           /\ result'.citations = <<>>]_vars

\* a context fetch of the expansion raised and query returned the error answer
C1_Witness ==
    /\ pc = "done"
    /\ result.answer = "error"
    /\ calls # <<>>
    /\ calls[Len(calls)].op = "get_disease_full_context"

\* C2: the list a linker builds never holds two entities with the same
\* (name, type), a linker only ever appends to it, and so the entities query
\* returns hold no (name, type) twice.
C2_NoDuplicateEntities ==
    /\ [](Injective(Keys(linked)))
    /\ [](pc = "done" => Injective(Keys(result.entities)))
    /\ [][(pc \in {"link", "rulelink"} /\ pc' = pc) => IsPrefix(linked, linked')]_vars

AloneLinked(m) == LinkMention(store, [linked |-> <<>>, seen |-> {}, issued |-> <<>>], m).linked

\* two mentions that each resolve to the same node were linked, and the
\* node is in the list once
C2_Witness ==
    /\ pc = "link" /\ idx = 3
    /\ Len(linked) = 1
    /\ AloneLinked(mentions[1]) # <<>>
    /\ AloneLinked(mentions[2]) # <<>>
    /\ EntityKey(AloneLinked(mentions[1])[1]) = EntityKey(AloneLinked(mentions[2])[1])

ExpansionOps == {"find_diseases_by_symptoms", "get_disease_full_context"}

\* C3: when both strategies have returned and no entity is linked, the next
\* step of query returns the fixed no-entity result, and the run has issued no
\* ranked search, no context fetch and no generation call.
C3_NoEntityStopsQuery ==
    /\ [][pc = "check" /\ entities = <<>> =>
            /\ pc' = "done"
            /\ result' = NoEntityResult]_vars
    /\ [](pc = "done" /\ result.answer = "no entity" =>
            /\ Ops(calls) \cap ExpansionOps = {}
            /\ ModelCall("generate") \notin {calls[k] : k \in 1..Len(calls)})

\* the model named nothing, the question had a keyword, and no node matched
C3_Witness ==
    /\ pc = "done"
    /\ result = NoEntityResult
    /\ mentions = <<>>
    /\ keywords # <<>>
    /\ Len(CallsOf(calls, "fuzzy_search_entity")) >= Len(entity_types_priority)

\* the model named something, its mentions linked nothing, and no call raised
ModelLinkedNothing ==
    /\ pc = "done"
    /\ mentions # <<>>
    /\ source # "llm"
    /\ result.answer # "error"

\* C4 as stated: when the model's mentions link nothing, query returns the
\* fixed no-entity result and the lexical strategy is not run.
C4_ModelMentionsEndQuery ==
    ModelLinkedNothing =>
        /\ result = NoEntityResult
        /\ \A k \in 1..Len(calls) : calls[k].limit # RuleLimit

\* C4: when the model's mentions link nothing, the lexical strategy is run
\* next; query returns the entities the lexical strategy links, and the fixed
\* no-entity result only when it links none either.
C4_ModelMentionsFallBack ==
    /\ [][pc = "link" /\ idx > Len(mentions) /\ linked = <<>> => pc' = "rule"]_vars
    /\ [](ModelLinkedNothing =>
            /\ result.entities = _rule_based_entity_extraction(store, question)
            /\ result.entities = <<>> <=> result = NoEntityResult)

\* the model's mention matched no node, the question's keyword did, and the
\* answer was generated from what the lexical strategy linked
C4_Witness ==
    /\ ModelLinkedNothing
    /\ source = "rule"
    /\ result.answer = "generated"
    /\ result.entities # <<>>

\* a response from which neither parsing stage recovers anything, or no
\* response at all
Unparsed(r) ==
    \/ r.kind \in {"raise", "notobject"}
    \/ /\ r.kind = "text"
       /\ \/ IsJsonString(r.lines)
          \/ \A k \in 1..Len(r.lines) : FallbackLine(r.lines[k]) = <<>>

TypedHitOpen ==
    /\ pc = "link" /\ idx <= Len(mentions)
    /\ Strip(mentions[idx].name) # <<>>
    /\ TypeMapping(mentions[idx].type) # NoType
    /\ LET hit == fuzzy_search_entity(store, Strip(mentions[idx].name),
                                      TypeMapping(mentions[idx].type), ExactLimit)
       IN  hit # <<>> /\ EntityKey(hit[1]) \notin seen

\* C10: a mention with a known type whose typed lookup returns a node not yet
\* linked is linked to exactly that node, with the mention's confidence, and
\* the typed lookup is the only lookup made for it.
C10_TypedHitIsLinked ==
    [][TypedHitOpen /\ idx' = idx + 1 =>
        LET name == Strip(mentions[idx].name)
            type == TypeMapping(mentions[idx].type)
            hit == fuzzy_search_entity(store, name, type, ExactLimit)[1]
        IN  /\ linked' = Append(linked, [name |-> hit.name,
                                         description |-> hit.description,
                                         type |-> type,
                                         llm_confidence |-> mentions[idx].confidence])
            /\ calls' = Append(calls, SearchCall(name, type, ExactLimit))]_vars

\* the Symptom mention "tou tong" was linked to the Symptom node by the typed
\* lookup, in a store where the first node containing the name is a Disease
C10_Witness ==
    /\ pc = "link" /\ idx = 2
    /\ store.nodes # <<>>
    /\ mentions[1] = [name |-> <<"tou", "tong">>, type |-> Label("Symptom"),
                      confidence |-> 9]
    /\ store.nodes[1].type = "Disease"
    /\ linked = <<[name |-> <<"tou", "tong">>, description |-> "", type |-> "Symptom",
                   llm_confidence |-> 9]>>
    /\ calls[Len(calls)].limit = ExactLimit

-----------------------------------------------------------------------------
(* Properties of _retrieve_subgraph *)

\* the names of the linked Symptom entities
LinkedSymptoms == Names(SelectSeq(entities, LAMBDA e : e.type = "Symptom"))

\* the weights of the edges of disease d to all the linked symptoms, summed
TotalWeight(d) == SumWeights(MatchedEdges(store, d, LinkedSymptoms))

\* the disease whose summed weight is strictly the highest, if there is one
Highest(d) ==
    /\ HasDisease(store, d)
    /\ \A k \in 1..Len(DiseaseNodes(store)) :
        DiseaseNodes(store)[k].name # d =>
            TotalWeight(d) > TotalWeight(DiseaseNodes(store)[k].name)

\* C6: when several entities are linked and all are Symptom entities, the
\* disease with strictly the highest weight summed over all of them is the
\* first entry of the diseases collection of the returned subgraph.
C6_HighestSumFirst ==
    (/\ pc = "expanded"
     /\ Len(entities) >= 2
     /\ Len(LinkedSymptoms) = Len(entities)) =>
        \A k \in 1..Len(DiseaseNodes(store)) :
            Highest(DiseaseNodes(store)[k].name) =>
                /\ subgraph.diseases # <<>>
                /\ subgraph.diseases[1].name = DiseaseNodes(store)[k].name

\* C7: a Disease entity whose name has no Disease node in the store is absent
\* from the diseases collection of the returned subgraph.
C7_AbsentDiseaseLeftOut ==
    pc = "expanded" =>
        \A k \in 1..Len(entities) :
            (entities[k].type = "Disease" /\ ~HasDisease(store, entities[k].name)) =>
                \A j \in 1..Len(subgraph.diseases) :
                    subgraph.diseases[j].name # entities[k].name

\* the one-hop context fetches made so far
Fetches == Len(CallsOf(calls, "get_disease_full_context"))

\* the entries a step appended to a collection
Added(old, new) == SubSeq(new, Len(old) + 1, Len(new))

\* the entries of `added` are among the first cap entries of the fetched list
FromFront(added, fetched, cap) ==
    /\ Len(added) <= cap
    /\ \A k \in 1..Len(added) :
        \E j \in 1..Min(cap, Len(fetched)) : fetched[j] = added[k]

\* C8: a step that fetches a one-hop context appends at most 10 symptoms, 10
\* drugs, 10 checks and 5 departments, each among the first 10 (5) entries of
\* the fetched list; so each collection is at most its cap times the number
\* of fetches long.
C8_CapsPerFetch ==
    /\ [][(Len(calls') = Len(calls) + 1
           /\ calls'[Len(calls')].op = "get_disease_full_context"
           /\ pc' # "except") =>
            LET ctx == get_disease_full_context(store, calls'[Len(calls')].arg)
                depts == GetList(ctx, "departments")
            IN  /\ FromFront(Added(subgraph.symptoms, subgraph'.symptoms),
                             GetList(ctx, "symptoms"), SymptomCap)
                /\ FromFront(Added(subgraph.drugs, subgraph'.drugs),
                             GetList(ctx, "drugs"), DrugCap)
                /\ FromFront(Added(subgraph.checks, subgraph'.checks),
                             GetList(ctx, "checks"), CheckCap)
                /\ FromFront(Added(subgraph.departments, subgraph'.departments),
                             [k \in 1..Len(depts) |-> [name |-> depts[k]]],
                             DepartmentCap)]_vars
    /\ [](/\ Len(subgraph.symptoms) <= SymptomCap * Fetches
          /\ Len(subgraph.drugs) <= DrugCap * Fetches
          /\ Len(subgraph.checks) <= CheckCap * Fetches
          /\ Len(subgraph.departments) <= DepartmentCap * Fetches)

\* one fetch of a disease with more than 10 neighbours of every kind filled
\* each collection up to its cap
C8_Witness ==
    /\ pc = "expanded"
    /\ Fetches = 1
    /\ HasDisease(store, calls[1].arg)
    /\ Len(get_disease_full_context(store, calls[1].arg).symptoms) > SymptomCap
    /\ Len(get_disease_full_context(store, calls[1].arg).departments) > DepartmentCap
    /\ Len(subgraph.symptoms) = SymptomCap
    /\ Len(subgraph.drugs) = DrugCap
    /\ Len(subgraph.checks) = CheckCap
    /\ Len(subgraph.departments) = DepartmentCap

Collections == {"diseases", "symptoms", "drugs", "checks", "departments"}

\* C9: at every point of the expansion no collection holds a name twice, and
\* a step only appends to a collection: no entry is replaced or moved.
C9_FirstSeenWins ==
    /\ [](\A c \in Collections : NoDup(Names(subgraph[c])))
    /\ [][\A c \in Collections : IsPrefix(subgraph[c], subgraph'[c])]_vars

\* a disease found through a symptom was fetched again as a Disease entity,
\* and its entry is still the ranked record, at the position it had
C9_Witness ==
    /\ pc = "expanded"
    /\ Len(entities) = 2
    /\ entities[1].type = "Symptom" /\ entities[2].type = "Disease"
    /\ Len(CallsOf(calls, "get_disease_full_context")) >= 2
    /\ calls[Len(calls)].arg = entities[2].name
    /\ \E k \in 1..(Len(subgraph.diseases) - 1) :
        /\ subgraph.diseases[k].name = entities[2].name
        /\ "match_score" \in DOMAIN subgraph.diseases[k]

-----------------------------------------------------------------------------
(* The two linkers on their own: _extract_and_link_entities from line 116 on *)

MaxLinkNodes == 5    \* nodes in the store of a linker run

\* four Symptom nodes and a Disease node whose names contain "tou tong"
LinkPool ==
    <<Node(<<"pian", "tou", "tong">>, "Disease", "migraine"),
      Node(<<"tou", "tong">>, "Symptom", ""),
      Node(<<"pian", "tou", "tong">>, "Symptom", ""),
      Node(<<"tou", "tong", "a">>, "Symptom", ""),
      Node(<<"tou", "tong", "b">>, "Symptom", "")>>

\* the pool scanned from its k-th node on
Rotated(k) == SubSeq(LinkPool, k, Len(LinkPool)) \o SubSeq(LinkPool, 1, k - 1)

LinkStores ==
    {StoreOf(Take(Rotated(k), n), QueryKb) :
        k \in 1..Len(LinkPool), n \in 0..MaxLinkNodes}

\* validated mentions, as _llm_extract_entities_structured returns them
LinkMentions ==
    {[name |-> <<"tou", "tong">>, type |-> Label("Symptom"), confidence |-> 9],
     [name |-> <<"tou", "tong">>, type |-> Label("Disease"), confidence |-> 8],
     [name |-> <<"tou", "tong">>, type |-> Label("Thing"), confidence |-> 7],
     [name |-> <<"tong", "tou">>, type |-> Label("Symptom"), confidence |-> 9],
     [name |-> <<"pian">>, type |-> Label("Drug"), confidence |-> 6],
     [name |-> <<>>, type |-> Label("Symptom"), confidence |-> 9]}

LinkQuestions == {<<"tou", "tong">>, <<"pian", "tou", ",", "tou", "tong">>}

\* the model's mentions are about to be linked, or it returned none
InitLink ==
    /\ Quiet
    /\ max_hops = DefaultMaxHops
    /\ question \in LinkQuestions
    /\ store \in LinkStores
    /\ \/ pc = "link" /\ mentions \in SeqsUpTo(LinkMentions, MaxMentions) \ {<<>>}
       \/ pc = "rule" /\ mentions = <<>>
    /\ llmResp = [kind |-> "none"]
    /\ genResp = "none"
    /\ keywords = <<>>
    /\ idx = 1
    /\ linked = <<>>
    /\ seen = {}
    /\ source = "none"
    /\ entities = <<>>
    /\ ranked = <<>>
    /\ ridx = 1
    /\ subgraph = EmptySubgraph
    /\ seenNames = EmptySeen
    /\ context = <<>>
    /\ answer = ""
    /\ calls = <<>>
    /\ result = [answer |-> ""]

NextLink ==
    \/ LinkStep \/ LinkRaise \/ LinkDone
    \/ RuleStart \/ RuleStep \/ RuleRaise \/ RuleDone

SpecLink == InitLink /\ [][NextLink]_vars

-----------------------------------------------------------------------------
(* Properties of _link_entities_to_neo4j *)

\* the mention being linked has a known type and the typed lookup of its name
\* returns a node
TypedHit ==
    /\ pc = "link" /\ idx <= Len(mentions)
    /\ Strip(mentions[idx].name) # <<>>
    /\ TypeMapping(mentions[idx].type) # NoType
    /\ fuzzy_search_entity(store, Strip(mentions[idx].name),
                           TypeMapping(mentions[idx].type), ExactLimit) # <<>>

\* C11: a mention with a known type whose typed lookup returns a node, linked
\* before or not, makes no untyped lookup and adds no entity but that node.
C11_TypedHitEndsMention ==
    [][TypedHit /\ idx' = idx + 1 =>
        LET name == Strip(mentions[idx].name)
            type == TypeMapping(mentions[idx].type)
            hit == fuzzy_search_entity(store, name, type, ExactLimit)[1]
        IN  /\ calls' = Append(calls, SearchCall(name, type, ExactLimit))
            /\ \A k \in (Len(linked) + 1)..Len(linked') :
                EntityKey(linked'[k]) = EntityKey(hit)]_vars

\* the places of the fuzzy results whose type is the mention's type guess
TypeMatches(fuzzy_matches, neo4j_type) ==
    {k \in 1..Len(fuzzy_matches) : fuzzy_matches[k].type = neo4j_type}

\* C12: when the untyped lookup is made for a mention, an entity the mention
\* adds is the first fuzzy result of the guessed type when the type is known
\* and there is such a result, and the first fuzzy result when the mention
\* has no known type.
C12_FirstFuzzyCandidate ==
    [][(/\ pc = "link" /\ idx <= Len(mentions) /\ idx' = idx + 1
        /\ calls' # calls
        /\ calls'[Len(calls')].limit = FuzzyLimit) =>
        LET name == Strip(mentions[idx].name)
            type == TypeMapping(mentions[idx].type)
            fuzzy_matches == fuzzy_search_entity(store, name, NoType, FuzzyLimit)
            typed == TypeMatches(fuzzy_matches, type)
        IN  \A k \in (Len(linked) + 1)..Len(linked') :
                /\ type = NoType => EntityKey(linked'[k]) = EntityKey(fuzzy_matches[1])
                /\ (type # NoType /\ typed # {}) =>
                        EntityKey(linked'[k]) =
                            EntityKey(fuzzy_matches[CHOOSE j \in typed :
                                                        \A o \in typed : j <= o])]_vars

-----------------------------------------------------------------------------
(* Properties of _rule_based_entity_extraction *)

LookupOrder == <<"Symptom", "Disease", "Drug", "Check", "Department">>

\* the place of a type in the lookup order
Rank(t) == CHOOSE k \in 1..Len(LookupOrder) : LookupOrder[k] = t

\* C13: one keyword of the lexical linker makes the five typed lookups of
\* limit 3 in the order Symptom, Disease, Drug, Check, Department, for the
\* keywords in their order; the entities it adds are among the first 3 hits of
\* their type, at most 3 of a type and 15 in all, and in the order of the
\* types.
C13_KeywordLookups ==
    [][(pc = "rulelink" /\ idx <= Len(keywords) /\ idx' = idx + 1) =>
        LET added == Added(linked, linked')
        IN  /\ keywords' = keywords
            /\ Added(calls, calls') =
                    [t \in 1..Len(LookupOrder) |->
                        SearchCall(keywords[idx], LookupOrder[t], 3)]
            /\ IsPrefix(linked, linked')
            /\ Len(added) <= 15
            /\ \A t \in 1..Len(LookupOrder) :
                    Len(SelectSeq(added, LAMBDA e : e.type = LookupOrder[t])) <= 3
            /\ \A k \in 1..Len(added) :
                    \E j \in 1..3 :
                        /\ j <= Len(fuzzy_search_entity(store, keywords[idx],
                                                        added[k].type, 3))
                        /\ fuzzy_search_entity(store, keywords[idx],
                                               added[k].type, 3)[j] = added[k]
            /\ \A j, k \in 1..Len(added) :
                    j < k => Rank(added[j].type) <= Rank(added[k].type)]_vars

\* the first keyword matched more than 3 Symptom nodes and a Disease node:
\* three Symptom entities were linked, then the Disease
C13_Witness ==
    /\ pc = "rulelink" /\ idx = 2
    /\ Len(fuzzy_search_entity(store, keywords[1], "Symptom", 4)) = 4
    /\ Len(linked) = 4
    /\ linked[3].type = "Symptom"
    /\ linked[4].type = "Disease"
    /\ store.nodes[1].type = "Disease"

-----------------------------------------------------------------------------
(* _link_entities_to_neo4j as a whole *)

\* the loop over the mentions, from mention k on
RECURSIVE LinkMentionsFrom(_, _, _, _)
LinkMentionsFrom(st, acc, ms, k) ==
    IF k > Len(ms) THEN acc
    ELSE LinkMentionsFrom(st, LinkMention(st, acc, ms[k]), ms, k + 1)

_link_entities_to_neo4j(st, ms) ==
    LinkMentionsFrom(st, [linked |-> <<>>, seen |-> {}, issued |-> <<>>], ms, 1).linked

\* every lookup the linker makes for mention m returns no match
Unmatched(m) ==
    /\ fuzzy_search_entity(store, Strip(m.name), NoType, FuzzyLimit) = <<>>
    /\ TypeMapping(m.type) # NoType =>
        fuzzy_search_entity(store, Strip(m.name), TypeMapping(m.type), ExactLimit) = <<>>

\* entity e is a record a lookup for mention m returns, with m's confidence
ReturnedFor(e, m) ==
    /\ e.llm_confidence = m.confidence
    /\ \E t \in KnownTypes \cup {NoType} :
        \E limit \in {ExactLimit, FuzzyLimit} :
            LET hits == fuzzy_search_entity(store, Strip(m.name), t, limit)
            IN  \E k \in 1..Len(hits) :
                    /\ hits[k].name = e.name
                    /\ hits[k].type = e.type
                    /\ hits[k].description = e.description

\* C14: a mention none of whose lookups matches goes by without an error and
\* without an entity; every linked entity is a record a lookup returned for
\* one of the mentions gone through; and the linker's result is its result on
\* the list without the unmatched mentions.
C14_UnmatchedMentionIsSkipped ==
    /\ [][(pc = "link" /\ idx <= Len(mentions) /\ idx' = idx + 1
           /\ Unmatched(mentions[idx])) =>
            /\ pc' = "link"
            /\ linked' = linked
            /\ seen' = seen]_vars
    /\ [](pc = "link" =>
            \A k \in 1..Len(linked) :
                \E j \in 1..(idx - 1) : ReturnedFor(linked[k], mentions[j]))
    /\ [](pc = "link" /\ idx > Len(mentions) =>
            linked = _link_entities_to_neo4j(store,
                        SelectSeq(mentions, LAMBDA m : ~Unmatched(m))))

\* the first of two mentions matched no node, the second was linked
C14_Witness ==
    /\ pc = "link" /\ idx = 3
    /\ Unmatched(mentions[1])
    /\ ~Unmatched(mentions[2])
    /\ Len(linked) = 1
    /\ ReturnedFor(linked[1], mentions[2])

-----------------------------------------------------------------------------
(* _extract_keywords on its own *)

MaxKwLen == 6    \* symbols in a question given to _extract_keywords

KwChars == {"tou", "tong", "shi", ","}

\* every short question, "shi shen me" (two stop words written as one run),
\* and a question with a repeated candidate and candidates of equal length
KwQuestions ==
    SeqsUpTo(KwChars, MaxKwLen)
    \cup {<<"shi", "shen", "me">>,
          <<"shi", ",", "tou", "tong", ",", "tou", ",", "tong">>,
          <<"tou", "tong", ",", "tou", ",", "tong", ",", "tou">>}

\* _rule_based_entity_extraction has been called with the question
InitKeywords ==
    /\ Quiet
    /\ max_hops = DefaultMaxHops
    /\ pc = "rule"
    /\ question \in KwQuestions
    /\ store = StoreOf(<<>>, QueryKb)
    /\ entities = <<>>
    /\ Fresh

SpecKeywords == InitKeywords /\ [][RuleStart]_vars

\* the candidates in the order _extract_keywords first appends them
Candidates(q) == Singles(FindWords(q, <<>>)) \o Combos(FindWords(q, <<>>))

\* the place where w is first appended
FirstAt(cs, w) == CHOOSE k \in 1..Len(cs) : cs[k] = w /\ \A j \in 1..(k - 1) : cs[j] # w

\* C15: the keyword list holds no string twice, is ordered by non-increasing
\* length, and holds candidates of equal length in the order in which they
\* were first appended, the single tokens before the compounds.
C15_KeywordsSortedUnique ==
    pc = "rulelink" =>
        /\ NoDup(keywords)
        /\ \A k \in 1..Len(keywords) :
            \E j \in 1..Len(Candidates(question)) : Candidates(question)[j] = keywords[k]
        /\ \A j, k \in 1..Len(keywords) :
            j < k =>
                /\ Len(keywords[j]) >= Len(keywords[k])
                /\ Len(keywords[j]) = Len(keywords[k]) =>
                    FirstAt(Candidates(question), keywords[j])
                        < FirstAt(Candidates(question), keywords[k])

\* a candidate appended twice is in the list once, a compound longer than a
\* single token was moved before it, and a single token ties with a compound
C15_Witness ==
    /\ pc = "rulelink"
    /\ Len(Candidates(question)) > Len(keywords)
    /\ keywords # <<>>
    /\ keywords[1] # Candidates(question)[1]
    /\ \E j, k \in 1..Len(keywords) :
        /\ j < k
        /\ Len(keywords[j]) = Len(keywords[k])
        /\ keywords[j] \in {Singles(FindWords(question, <<>>))[n] :
                                n \in 1..Len(Singles(FindWords(question, <<>>)))}

\* the tokens of the question: its maximal runs of CJK symbols
Tokens == FindWords(question, <<>>)

\* w is a token that is no stop word and has 2 to 4 symbols
IsSingle(w) ==
    /\ \E i \in 1..Len(Tokens) : Tokens[i] = w
    /\ w \notin stop_words
    /\ 2 <= Len(w) /\ Len(w) <= 4

\* w is two adjacent tokens, neither a stop word, of 2 to 4 symbols together
IsPair(w) ==
    /\ 2 <= Len(w) /\ Len(w) <= 4
    /\ \E i \in 1..(Len(Tokens) - 1) :
        /\ w = Tokens[i] \o Tokens[i + 1]
        /\ Tokens[i] \notin stop_words /\ Tokens[i + 1] \notin stop_words

\* w is three adjacent tokens, none a stop word, of 3 to 6 symbols together
IsTriple(w) ==
    /\ 3 <= Len(w) /\ Len(w) <= 6
    /\ \E i \in 1..(Len(Tokens) - 2) :
        /\ w = Tokens[i] \o Tokens[i + 1] \o Tokens[i + 2]
        /\ Tokens[i] \notin stop_words /\ Tokens[i + 1] \notin stop_words
        /\ Tokens[i + 2] \notin stop_words

\* C16: every keyword is a token of 2 to 4 symbols that is no stop word, or
\* two adjacent tokens of 2 to 4 symbols together, or three adjacent tokens of
\* 3 to 6 symbols together, no stop word among the tokens put together; so a
\* keyword has 2 to 6 symbols, and a token that is a stop word or has one
\* symbol is no keyword unless it is such a compound as well.
C16_KeywordsAreCandidates ==
    pc = "rulelink" =>
        \A k \in 1..Len(keywords) :
            /\ IsSingle(keywords[k]) \/ IsPair(keywords[k]) \/ IsTriple(keywords[k])
            /\ 2 <= Len(keywords[k]) /\ Len(keywords[k]) <= 6

\* the question has a stop-word token and a token of one symbol, and its
\* keywords are a single token, a pair and a triple
C16_Witness ==
    /\ pc = "rulelink"
    /\ \E i \in 1..Len(Tokens) : Tokens[i] \in stop_words
    /\ \E i \in 1..Len(Tokens) : Len(Tokens[i]) = 1 /\ Tokens[i] \notin stop_words
    /\ \E k \in 1..Len(keywords) : IsSingle(keywords[k])
    /\ \E k \in 1..Len(keywords) : IsPair(keywords[k]) /\ ~IsSingle(keywords[k])
    /\ \E k \in 1..Len(keywords) :
        IsTriple(keywords[k]) /\ ~IsSingle(keywords[k]) /\ ~IsPair(keywords[k])

\* q is made of stop words only, written side by side or with symbols
\* that are no CJK symbols between them
RECURSIVE OnlyStopWords(_)
OnlyStopWords(q) ==
    \/ q = <<>>
    \/ q # <<>> /\ ~IsCJK(Head(q)) /\ OnlyStopWords(Tail(q))
    \/ \E n \in 1..Len(q) :
        SubSeq(q, 1, n) \in stop_words /\ OnlyStopWords(SubSeq(q, n + 1, Len(q)))

\* C17: the empty question, and a question made only of stop words, separated
\* or adjacent, have no keyword.
C17_StopWordsGiveNoKeyword ==
    (pc = "rulelink" /\ OnlyStopWords(question)) => keywords = <<>>

(* _build_knowledge_context on subgraphs of every size *)

MaxOver == 1    \* entries a collection holds beyond its cap

CtxSizes(cap) == {0, 1, cap, cap + MaxOver}

\* rows of the ranking query and diseases named in the question, in turn
CtxDiseases(n) ==
    [k \in 1..n |->
        IF k % 2 = 1
        THEN [name |-> Numbered("b", k), description |-> "text",
              match_score |-> 8 + k, matched_symptoms |-> 1]
        ELSE [name |-> Numbered("b", k), description |-> ""]]

CtxSymptoms(n) == [k \in 1..n |-> [name |-> Numbered("s", k), weight |-> 8]]

CtxDrugs(n) ==
    [k \in 1..n |-> [name |-> Numbered("r", k),
                     usage |-> IF k % 2 = 1 THEN "oral" ELSE ""]]

CtxChecks(n) == [k \in 1..n |-> [name |-> Numbered("c", k), priority |-> ""]]

CtxDepartments(n) == [k \in 1..n |-> [name |-> Numbered("d", k)]]

ContextSubgraphs ==
    {[diseases |-> CtxDiseases(a), symptoms |-> CtxSymptoms(b), drugs |-> CtxDrugs(c),
      checks |-> CtxChecks(d), departments |-> CtxDepartments(e),
      relationships |-> <<>>] :
        a \in CtxSizes(ContextDiseaseCap), b \in CtxSizes(ContextSymptomCap),
        c \in CtxSizes(ContextDrugCap), d \in CtxSizes(ContextCheckCap),
        e \in CtxSizes(ContextDepartmentCap)}

\* _retrieve_subgraph has returned; query is about to serialize the subgraph
InitContext ==
    /\ Quiet
    /\ max_hops = DefaultMaxHops
    /\ pc = "expanded"
    /\ question = <<"tou", "tong">>
    /\ store = StoreOf(<<>>, QueryKb)
    /\ subgraph \in ContextSubgraphs
    /\ llmResp = [kind |-> "none"]
    /\ genResp = "none"
    /\ mentions = <<>>
    /\ keywords = <<>>
    /\ idx = 1
    /\ linked = <<>>
    /\ seen = {}
    /\ source = "none"
    /\ entities = <<>>
    /\ ranked = <<>>
    /\ ridx = 1
    /\ seenNames = EmptySeen
    /\ context = <<>>
    /\ answer = ""
    /\ calls = <<>>
    /\ result = [answer |-> ""]

SpecContext == InitContext /\ [][BuildContext]_vars

Sections == <<"diseases", "symptoms", "drugs", "checks", "departments">>

SectionSet == {Sections[k] : k \in 1..Len(Sections)}

SectionCap(section) ==
    CASE section = "diseases" -> 5
      [] section = "symptoms" -> 10
      [] section = "drugs" -> 10
      [] section = "checks" -> 10
      [] section = "departments" -> 5

HeaderLines(ctx) == SelectSeq(ctx, LAMBDA l : l.kind = "header")

EntryLines(ctx) == SelectSeq(ctx, LAMBDA l : l.kind = "entry")

EntriesOf(ctx, section) ==
    SelectSeq(ctx, LAMBDA l : l.kind = "entry" /\ l.section = section)

\* the section of the last header at or before line k, "" when there is none
SectionAt(ctx, k) ==
    LET hs == {j \in 1..k : ctx[j].kind = "header"}
    IN  IF hs = {} THEN ""
        ELSE ctx[CHOOSE j \in hs : \A h \in hs : h <= j].section

\* C18: the context has one section for each collection that is not empty and
\* none for an empty one, in the order diseases, symptoms, drugs, checks,
\* departments; every entry stands under the header of its collection, and the
\* entries of a section follow the order of the collection; the context is the
\* sentinel exactly when the five collections are empty, and it is never the
\* empty text.
C18_SectionsFollowCollections ==
    pc = "generate" =>
        /\ [k \in 1..Len(HeaderLines(context)) |-> HeaderLines(context)[k].section]
             = SelectSeq(Sections, LAMBDA s : subgraph[s] # <<>>)
        /\ \A k \in 1..Len(context) :
             context[k].kind = "entry" => SectionAt(context, k) = context[k].section
        /\ \A s \in SectionSet :
             IsPrefix(Names(EntriesOf(context, s)), Names(subgraph[s]))
        /\ (context = <<[kind |-> "sentinel"]>>)
             <=> (\A s \in SectionSet : subgraph[s] = <<>>)
        /\ \A k \in 1..Len(context) :
             context[k].kind = "sentinel" => Len(context) = 1
        /\ context # <<>> /\ context # <<[kind |-> "blank"]>>

\* some collections are empty, others are not, and the context has been built
C18_Witness ==
    /\ pc = "generate"
    /\ subgraph.diseases = <<>> /\ subgraph.drugs = <<>>
    /\ Len(subgraph.symptoms) > 1 /\ subgraph.checks # <<>> /\ subgraph.departments # <<>>
    /\ Len(HeaderLines(context)) = 3
    /\ Len(EntriesOf(context, "symptoms")) > 1

\* C19: the context has at most 5 headers and 40 entries, and the entries of
\* a section are taken from the first 5 diseases, 10 symptoms, 10 drugs, 10
\* checks and 5 departments of the subgraph, whatever its size.
C19_ContextIsCapped ==
    pc = "generate" =>
        /\ Len(HeaderLines(context)) <= 5
        /\ Len(EntryLines(context)) <= 40
        /\ \A s \in SectionSet :
             /\ Len(EntriesOf(context, s)) <= SectionCap(s)
             /\ \A k \in 1..Len(EntriesOf(context, s)) :
                  \E j \in 1..SectionCap(s) :
                     /\ j <= Len(subgraph[s])
                     /\ EntriesOf(context, s)[k].name = subgraph[s][j].name

\* every collection is longer than its cap, and the context is full
C19_Witness ==
    /\ pc = "generate"
    /\ \A s \in SectionSet : Len(subgraph[s]) > SectionCap(s)
    /\ Len(HeaderLines(context)) = 5
    /\ Len(EntryLines(context)) = 40

NextResult == BuildContext \/ Generate \/ Return

SpecResult == InitContext /\ [][NextResult]_vars

\* C21: the citations are one Disease citation for each of the first 5
\* diseases of the subgraph, then one Symptom citation for each of its first 5
\* symptoms, in collection order; no drug, check or department is cited, and
\* there are at most 10 citations, at most 5 of each type.
C21_CitationsAreFirstFive ==
    pc = "done" =>
        LET cs == result.citations
            nd == Min(5, Len(subgraph.diseases))
            ns == Min(5, Len(subgraph.symptoms))
        IN  /\ Len(cs) = nd + ns
            /\ \A k \in 1..nd :
                 cs[k].type = "Disease" /\ cs[k].name = subgraph.diseases[k].name
            /\ \A k \in 1..ns :
                 cs[nd + k].type = "Symptom" /\ cs[nd + k].name = subgraph.symptoms[k].name
            /\ \A k \in 1..Len(cs) :
                 /\ cs[k].type \in {"Disease", "Symptom"}
                 /\ \A s \in {"drugs", "checks", "departments"} :
                      \A j \in 1..Len(subgraph[s]) : subgraph[s][j].name # cs[k].name
            /\ Len(cs) <= 10
            /\ Len(SelectSeq(cs, LAMBDA c : c.type = "Disease")) <= 5
            /\ Len(SelectSeq(cs, LAMBDA c : c.type = "Symptom")) <= 5

\* a subgraph with more than 5 diseases and symptoms, and with drugs, checks
\* and departments, has been cited
C21_Witness ==
    /\ pc = "done"
    /\ Len(subgraph.diseases) > 5 /\ Len(subgraph.symptoms) > 5
    /\ subgraph.drugs # <<>> /\ subgraph.checks # <<>> /\ subgraph.departments # <<>>
    /\ Len(result.citations) = 10
    /\ result.citations[5].type = "Disease" /\ result.citations[6].type = "Symptom"

\* C22: a step of the expander on an entity that is neither a Symptom nor a
\* Disease issues no store call and leaves the subgraph, its relationships
\* included, as it was; the relationships of the subgraph stay empty throughout.
C22_OtherTypesAreSkipped ==
    /\ [][(pc = "expand" /\ idx <= Len(entities) /\ idx' = idx + 1
           /\ entities[idx].type \notin {"Symptom", "Disease"}) =>
              /\ calls' = calls
              /\ subgraph' = subgraph
              /\ seenNames' = seenNames
              /\ pc' = "expand"]_vars
    /\ [](subgraph.relationships = <<>>)

\* a Drug or Check entity has been processed after a Symptom entity that
\* filled the subgraph
C22_Witness ==
    /\ pc = "expand" /\ idx = 3 /\ Len(entities) = 2
    /\ entities[1].type = "Symptom"
    /\ entities[2].type \in {"Drug", "Check"}
    /\ subgraph.diseases # <<>> /\ subgraph.drugs # <<>>
    /\ subgraph.relationships = <<>>
    /\ Len(calls) > 1

(* query from the expander on, under every hop limit *)

MaxHops == 3    \* the largest hop limit a caller passes

InitHops ==
    /\ Quiet
    /\ pc = "expand"
    /\ question = <<>>
    /\ max_hops \in 0..MaxHops
    /\ store \in ExpandStores
    /\ entities \in {es \in SeqsUpTo(ExpandEntities, MaxEntities) : Injective(Keys(es))}
    /\ Fresh

NextHops == Expand \/ BuildContext \/ Generate \/ Return \/ Except

SpecHops == InitHops /\ [][NextHops]_vars

\* `for disease in diseases` of the Symptom branch, from disease k on
RECURSIVE AddRankedFrom(_, _, _, _)
AddRankedFrom(st, x, ds, k) ==
    IF k > Len(ds) THEN x
    ELSE AddRankedFrom(st,
            IF ds[k].name \in x.sn.diseases THEN x
            ELSE AddRankedDisease(x, ds[k], get_disease_full_context(st, ds[k].name)),
            ds, k + 1)

\* the subgraphs _retrieve_subgraph can return for the entities from k on,
\* one for each order in which the store may rank equal diseases
RECURSIVE RetrieveFrom(_, _, _, _)
RetrieveFrom(st, x, es, k) ==
    IF k > Len(es) THEN {x.sg}
    ELSE IF es[k].type = "Symptom"
    THEN UNION {RetrieveFrom(st, AddRankedFrom(st, x, ds, 1), es, k + 1) :
                    ds \in find_diseases_by_symptoms(st, <<es[k].name>>, TopK)}
    ELSE IF es[k].type = "Disease"
    THEN RetrieveFrom(st,
            AddDiseaseEntity(x, es[k].name, get_disease_full_context(st, es[k].name)),
            es, k + 1)
    ELSE RetrieveFrom(st, x, es, k + 1)

_retrieve_subgraph(st, es) ==
    RetrieveFrom(st, [sg |-> EmptySubgraph, sn |-> EmptySeen], es, 1)

\* the names one hop from disease d in the store
Neighbours(st, d, coll) ==
    IF d \notin DOMAIN st.rel THEN {}
    ELSE IF coll = "departments"
    THEN {st.rel[d][coll][k] : k \in 1..Len(st.rel[d][coll])}
    ELSE {st.rel[d][coll][k].name : k \in 1..Len(st.rel[d][coll])}

MaxThreads == 2

Threads == 1..MaxThreads

Accessors == {"graphrag", "neo4j"}

\* the query pipeline at rest while the accessors run
NoQuery ==
    /\ pc = "idle"
    /\ question = <<>>
    /\ max_hops = DefaultMaxHops
    /\ store = StoreOf(<<>>, QueryKb)
    /\ entities = <<>>
    /\ Fresh

\* the process has started: no service exists, every thread is about to call
\* one of the accessors.  A thread's locals: the GraphRAGService it is
\* initialising (self), the Neo4jService it has built (made), and what the
\* accessor returned to it (got).  Instances are numbered as they are built.
InitSingleton ==
    /\ NoQuery
    /\ _graphrag_service_instance = None
    /\ _neo4j_service_instance = None
    /\ constructed = [graphrag |-> 0, neo4j |-> 0]
    /\ callers \in [Threads -> {[pc |-> "call", accessor |-> a, self |-> None,
                                 made |-> None, got |-> None] : a \in Accessors}]
    /\ peer = NoPeer

At(t, where) == callers[t].pc = where

Goto(t, where) == callers' = [callers EXCEPT ![t].pc = where]

QueryVars ==
    <<pc, question, max_hops, llmResp, genResp, store, mentions, keywords, idx,
      linked, seen, source, entities, ranked, ridx, subgraph, seenNames,
      context, answer, calls, result, peer>>

\* thread t enters the accessor it calls
Call(t) ==
    /\ At(t, "call")
    /\ Goto(t, IF callers[t].accessor = "graphrag" THEN "g_test" ELSE "n_test")
    /\ UNCHANGED <<QueryVars, _graphrag_service_instance, _neo4j_service_instance,
                   constructed>>

\* graphrag_service.py line 706: if _graphrag_service_instance is None
GTest(t) ==
    /\ At(t, "g_test")
    /\ Goto(t, IF _graphrag_service_instance = None THEN "g_init" ELSE "g_return")
    /\ UNCHANGED <<QueryVars, _graphrag_service_instance, _neo4j_service_instance,
                   constructed>>

\* line 707, GraphRAGService(): __init__ starts and calls get_neo4j_service
GInit(t) ==
    /\ At(t, "g_init")
    /\ constructed' = [constructed EXCEPT !.graphrag = @ + 1]
    /\ callers' = [callers EXCEPT ![t].pc = "n_test",
                                  ![t].self = constructed.graphrag + 1]
    /\ UNCHANGED <<QueryVars, _graphrag_service_instance, _neo4j_service_instance>>

\* neo4j_service.py line 285: if _neo4j_service_instance is None
NTest(t) ==
    /\ At(t, "n_test")
    /\ Goto(t, IF _neo4j_service_instance = None THEN "n_init" ELSE "n_return")
    /\ UNCHANGED <<QueryVars, _graphrag_service_instance, _neo4j_service_instance,
                   constructed>>

\* line 286, right-hand side: Neo4jService() connects to the store
NInit(t) ==
    /\ At(t, "n_init")
    /\ constructed' = [constructed EXCEPT !.neo4j = @ + 1]
    /\ callers' = [callers EXCEPT ![t].pc = "n_assign",
                                  ![t].made = constructed.neo4j + 1]
    /\ UNCHANGED <<QueryVars, _graphrag_service_instance, _neo4j_service_instance>>

\* line 286: the global is assigned
NAssign(t) ==
    /\ At(t, "n_assign")
    /\ _neo4j_service_instance' = callers[t].made
    /\ Goto(t, "n_return")
    /\ UNCHANGED <<QueryVars, _graphrag_service_instance, constructed>>

\* line 287: return _neo4j_service_instance, to the caller or to __init__,
\* which goes on to build the model client and returns
NReturn(t) ==
    /\ At(t, "n_return")
    /\ callers' = IF callers[t].accessor = "neo4j"
                  THEN [callers EXCEPT ![t].pc = "done",
                                       ![t].got = _neo4j_service_instance]
                  ELSE [callers EXCEPT ![t].pc = "g_assign"]
    /\ UNCHANGED <<QueryVars, _graphrag_service_instance, _neo4j_service_instance,
                   constructed>>

\* graphrag_service.py line 707: the global is assigned
GAssign(t) ==
    /\ At(t, "g_assign")
    /\ _graphrag_service_instance' = callers[t].self
    /\ Goto(t, "g_return")
    /\ UNCHANGED <<QueryVars, _neo4j_service_instance, constructed>>

\* line 708: return _graphrag_service_instance
GReturn(t) ==
    /\ At(t, "g_return")
    /\ callers' = [callers EXCEPT ![t].pc = "done",
                                  ![t].got = _graphrag_service_instance]
    /\ UNCHANGED <<QueryVars, _neo4j_service_instance, _graphrag_service_instance,
                   constructed>>

NextSingleton ==
    \E t \in Threads :
        \/ Call(t) \/ GTest(t) \/ GInit(t) \/ NTest(t) \/ NInit(t)
        \/ NAssign(t) \/ NReturn(t) \/ GAssign(t) \/ GReturn(t)

SpecSingleton == InitSingleton /\ [][NextSingleton]_vars

\* C24: under every interleaving each service constructor runs at most once,
\* and all callers of an accessor receive the same instance.
C24_OneInstance ==
    /\ constructed.graphrag <= 1
    /\ constructed.neo4j <= 1
    /\ \A t, u \in Threads :
         (At(t, "done") /\ At(u, "done") /\ callers[t].accessor = callers[u].accessor)
            => callers[t].got = callers[u].got

\* C26: when the answer generation fails, query still returns through its
\* normal exit: the answer is the generation error text, and entities,
\* context_summary and citations are the linked entities, the summary of the
\* context and the citations of the subgraph built before the generation.
C26_GenerationFailureIsLocal ==
    /\ [][(pc = "generate" /\ genResp' = "raise") =>
             pc' = "citations" /\ answer' = "generation error"]_vars
    /\ []((pc = "done" /\ genResp = "raise") =>
             /\ result.answer = "generation error"
             /\ result.entities = entities /\ entities # <<>>
             /\ result.context_summary = _summarize_context(_build_knowledge_context(subgraph))
             /\ result.citations = _extract_citations(subgraph))

\* the generation has failed after a subgraph with diseases and symptoms was
\* built, and query has returned
C26_Witness ==
    /\ pc = "done" /\ genResp = "raise"
    /\ result.answer = "generation error"
    /\ result.entities # <<>>
    /\ result.citations # <<>>
    /\ Len(result.context_summary) > 1

(* _llm_extract_entities_structured on responses of every shape *)

ParseEntities ==
    {[name |-> <<"tou", "tong">>, type |-> Label("Symptom"), confidence |-> 9],
     [name |-> <<" ", "fa", "re">>, type |-> Label("Symptom")],
     [name |-> <<"tou", "tong">>],
     [type |-> Label("Symptom")],
     [name |-> Null, type |-> Label("Symptom")],
     [name |-> <<"gan", "mao">>, type |-> Null]}

ParseChars == {"tou", "tong", ":", "\"", " "}

ParseResponses ==
    {[kind |-> "raise"], [kind |-> "notobject"]}
    \cup {[kind |-> "json", entities |-> es] : es \in SeqsUpTo(ParseEntities, MaxMentions)}
    \cup {[kind |-> "text", lines |-> <<l>>] : l \in SeqsUpTo(ParseChars, MaxLineLen)}

\* the model has been asked and has answered
InitParse ==
    /\ Quiet
    /\ pc = "parse"
    /\ question = <<"tou", "tong">>
    /\ max_hops = DefaultMaxHops
    /\ store = StoreOf(<<>>, QueryKb)
    /\ entities = <<>>
    /\ llmResp \in ParseResponses
    /\ genResp = "none"
    /\ mentions = <<>>
    /\ keywords = <<>>
    /\ idx = 1
    /\ linked = <<>>
    /\ seen = {}
    /\ source = "none"
    /\ ranked = <<>>
    /\ ridx = 1
    /\ subgraph = EmptySubgraph
    /\ seenNames = EmptySeen
    /\ context = <<>>
    /\ answer = ""
    /\ calls = <<ModelCall("extract")>>
    /\ result = [answer |-> ""]

\* lines 196-237: the response is parsed; _extract_and_link_entities goes on
\* with the linker or with the lexical fallback
ParseResponse ==
    /\ pc = "parse"
    /\ mentions' = _llm_extract_entities_structured(llmResp)
    /\ pc' = IF _llm_extract_entities_structured(llmResp) # <<>> THEN "link" ELSE "rule"
    /\ UNCHANGED <<others, max_hops, question, llmResp, genResp, store, keywords, idx,
                   linked, seen, source, entities, ranked, ridx, subgraph, seenNames,
                   context, answer, calls, result>>

SpecParse == InitParse /\ [][ParseResponse]_vars

\* the listed entities that have a name and a type field
WithBothFields(ents) ==
    SelectSeq(ents, LAMBDA e : "name" \in DOMAIN e /\ "type" \in DOMAIN e)

\* the listed entities whose name and type are strings
WithStrings(ents) ==
    SelectSeq(WithBothFields(ents), LAMBDA e : IsString(e.name) /\ IsString(e.type))

\* C27: from a JSON response the entities that lack a name or a type field
\* are dropped and the others are kept in response order: no entity without
\* the two fields is among the mentions, every entity with a name and a type
\* that are strings is, and when all names and types are strings the
\* mentions are the entities with both fields, one for one; from a response
\* that is no JSON the recovery parser yields only entities of confidence 0.7
\* with a name of 2 symbols or more; the parsing never raises.
C27_ParsedEntitiesAreKept ==
    pc # "parse" =>
        /\ pc \in {"link", "rule"}
        /\ llmResp.kind = "json" =>
             LET kept == WithBothFields(llmResp.entities)
                 good == WithStrings(llmResp.entities)
             IN  /\ Len(good) <= Len(mentions) /\ Len(mentions) <= Len(kept)
                 /\ \A k \in 1..Len(good) :
                      \E j \in 1..Len(mentions) : mentions[j].name = Strip(good[k].name)
                 /\ good = kept =>
                      Names(mentions) = [k \in 1..Len(kept) |-> Strip(kept[k].name)]
        /\ llmResp.kind = "text" =>
             \A k \in 1..Len(mentions) :
                mentions[k].confidence = 7 /\ Len(mentions[k].name) >= 2

(* _retrieve_subgraph on a store that ranks more diseases than the search returns *)

RankedDiseases == TopK + MaxOver

\* every disease has the symptom, each with a weight of its own
RankKb ==
    [d \in {Numbered("b", k) : k \in 1..RankedDiseases} |->
        [symptoms |-> <<[name |-> <<"tou", "tong">>,
                         weight |-> (CHOOSE k \in 1..RankedDiseases : d = Numbered("b", k))]>>,
         drugs |-> <<[name |-> <<"tou", "tong", "pian">>, usage |-> ""]>>,
         checks |-> <<>>,
         departments |-> <<>>]]

RankStore ==
    StoreOf([k \in 1..RankedDiseases |-> Node(Numbered("b", k), "Disease", "")]
            \o <<Node(<<"tou", "tong">>, "Symptom", ""),
                 Node(<<"tou", "tong", "pian">>, "Drug", "")>>,
            RankKb)

RankEntities ==
    {Node(<<"tou", "tong">>, "Symptom", ""),
     Node(Numbered("b", 1), "Disease", ""),
     Node(Numbered("b", RankedDiseases), "Disease", ""),
     Node(<<"shi", "mian">>, "Disease", ""),
     Node(<<"tou", "tong", "pian">>, "Drug", "")}

InitRank ==
    /\ Quiet
    /\ max_hops = DefaultMaxHops
    /\ pc = "expand"
    /\ question = <<>>
    /\ store = RankStore
    /\ entities \in {es \in SeqsUpTo(RankEntities, MaxEntities) : Injective(Keys(es))}
    /\ Fresh

SpecRank == InitRank /\ [][Expand]_vars

\* C28: the expander takes the entities in input order.  A Symptom entity
\* issues one ranked search and takes at most 10 diseases from it; going
\* through them in ranked order, a disease not in the diseases collection is
\* appended and its context fetched once, a disease already there is passed
\* over with no fetch.  A Disease entity issues one fetch for its own name
\* and is appended only if its name is not in the collection.
C28_ExpanderOrder ==
    /\ [][(pc = "expand" /\ idx <= Len(entities) /\ pc' # "except") =>
            /\ idx' = idx + 1 \/ (idx' = idx /\ pc' = "diseases")
            /\ entities' = entities
            /\ entities[idx].type = "Symptom" =>
                 /\ calls' = Append(calls, RankCall(entities[idx].name))
                 /\ pc' = "diseases" /\ ridx' = 1
                 /\ Len(ranked') <= 10
                 /\ subgraph' = subgraph
            /\ entities[idx].type = "Disease" =>
                 /\ calls' = Append(calls, FetchCall(entities[idx].name))
                 /\ idx' = idx + 1
                 /\ IF \E j \in 1..Len(subgraph.diseases) :
                          subgraph.diseases[j].name = entities[idx].name
                    THEN subgraph'.diseases = subgraph.diseases
                    ELSE \/ subgraph'.diseases = subgraph.diseases
                         \/ /\ Len(subgraph'.diseases) = Len(subgraph.diseases) + 1
                            /\ IsPrefix(subgraph.diseases, subgraph'.diseases)
                            /\ subgraph'.diseases[Len(subgraph'.diseases)].name
                                 = entities[idx].name]_vars
    /\ [][(pc = "diseases" /\ ridx <= Len(ranked) /\ pc' # "except") =>
            /\ ridx' = ridx + 1 /\ ranked' = ranked /\ idx' = idx
            /\ IF \E j \in 1..Len(subgraph.diseases) :
                     subgraph.diseases[j].name = ranked[ridx].name
               THEN calls' = calls /\ subgraph' = subgraph
               ELSE /\ calls' = Append(calls, FetchCall(ranked[ridx].name))
                    /\ subgraph'.diseases = Append(subgraph.diseases, ranked[ridx])]_vars
    /\ [][(pc = "diseases" /\ ridx > Len(ranked)) =>
            pc' = "expand" /\ idx' = idx + 1 /\ calls' = calls /\ subgraph' = subgraph]_vars

\* a Disease entity and then a Symptom entity have been processed: the
\* search ranked more than 10 diseases and returned 10, the first of which
\* was in the collection already and was not fetched again
C28_Witness ==
    /\ pc = "expanded"
    /\ Len(entities) = 2
    /\ entities[1].type = "Disease" /\ entities[2].type = "Symptom"
    /\ Len(ranked) = 10
    /\ ranked[1].name = entities[1].name
    /\ Len(DiseaseNodes(store)) > 10
    /\ Len(subgraph.diseases) = 10
    /\ Len(CallsOf(calls, "get_disease_full_context")) = 10
    /\ Names(subgraph.diseases) = <<entities[1].name>> \o Names(Tail(ranked))

\* C29: a step of the model-extraction linker appends at most one entity to
\* the linked entities and leaves the earlier ones in place, so the linked
\* entities are never more than the mentions processed and follow the order of
\* the mentions they come from; a mention whose name is empty issues no
\* lookup and links nothing.
C29_OneEntityPerMention ==
    /\ [][(pc = "link" /\ idx <= Len(mentions) /\ idx' = idx + 1) =>
            /\ IsPrefix(linked, linked')
            /\ Len(linked') <= Len(linked) + 1
            /\ Strip(mentions[idx].name) = <<>> => calls' = calls /\ linked' = linked]_vars
    /\ [](pc = "link" => Len(linked) <= idx - 1 /\ Len(linked) <= Len(mentions))

\* a mention with an empty name and a mention that several nodes match have
\* been processed: one entity is linked and the lookups are those of the
\* second mention
C29_Witness ==
    /\ pc = "link" /\ idx = 3 /\ Len(mentions) = 2
    /\ mentions[1].name = <<>>
    /\ Len(fuzzy_search_entity(store, mentions[2].name, NoType, FuzzyLimit)) > 1
    /\ Len(linked) = 1
    /\ calls # <<>>
    /\ \A k \in 1..Len(calls) : calls[k].arg = mentions[2].name

(* retrieve_subgraph of GraphRAGServiceV1, src/graphrag_service_1.0.py *)

\* a collecting pass with no [:10] and [:5] slices
CollectRelatedUncapped(x, ctx) ==
    LET sy == Collect([seen |-> x.sn.symptoms, list |-> x.sg.symptoms],
                      GetList(ctx, "symptoms"))
        dr == Collect([seen |-> x.sn.drugs, list |-> x.sg.drugs], GetList(ctx, "drugs"))
        ch == Collect([seen |-> x.sn.checks, list |-> x.sg.checks], GetList(ctx, "checks"))
        depts == GetList(ctx, "departments")
        de == Collect([seen |-> x.sn.departments, list |-> x.sg.departments],
                      [k \in 1..Len(depts) |-> [name |-> depts[k]]])
    IN  [sg |-> [x.sg EXCEPT !.symptoms = sy.list, !.drugs = dr.list,
                             !.checks = ch.list, !.departments = de.list],
         sn |-> [x.sn EXCEPT !.symptoms = sy.seen, !.drugs = dr.seen,
                             !.checks = ch.seen, !.departments = de.seen]]

\* _collect_related_entities: x is subgraph and seen_entities
_collect_related_entities(x, ctx) ==
    LET sy == Collect([seen |-> x.sn.symptoms, list |-> x.sg.symptoms],
                      Take(GetList(ctx, "symptoms"), 10))
        dr == Collect([seen |-> x.sn.drugs, list |-> x.sg.drugs],
                      Take(GetList(ctx, "drugs"), 10))
        ch == Collect([seen |-> x.sn.checks, list |-> x.sg.checks],
                      Take(GetList(ctx, "checks"), 10))
        depts == Take(GetList(ctx, "departments"), 5)
        de == Collect([seen |-> x.sn.departments, list |-> x.sg.departments],
                      [k \in 1..Len(depts) |-> [name |-> depts[k]]])
    IN  [sg |-> [x.sg EXCEPT !.symptoms = sy.list, !.drugs = dr.list,
                             !.checks = ch.list, !.departments = de.list],
         sn |-> [x.sn EXCEPT !.symptoms = sy.seen, !.drugs = dr.seen,
                             !.checks = ch.seen, !.departments = de.seen]]

\* _process_disease_context, from disease k of the list on
RECURSIVE _process_disease_context(_, _, _, _)
_process_disease_context(st, x, diseases, k) ==
    IF k > Len(diseases) THEN x
    ELSE LET disease_name == Get(diseases[k], "name", <<>>)
             y == [sg |-> [x.sg EXCEPT !.diseases = Append(@, diseases[k])],
                   sn |-> [x.sn EXCEPT !.diseases = @ \cup {disease_name}]]
             disease_context == get_disease_full_context(st, disease_name)
         IN  _process_disease_context(st,
                IF disease_name # <<>> /\ disease_name \notin x.sn.diseases
                THEN (IF Truthy(disease_context) THEN _collect_related_entities(y, disease_context) ELSE y)
                ELSE x,
                diseases, k + 1)

\* the loop of retrieve_subgraph from entity k on: the subgraphs it can
\* build, one for each order in which the store may rank equal diseases
RECURSIVE RetrieveV1From(_, _, _, _)
RetrieveV1From(st, x, es, k) ==
    IF k > Len(es) THEN {x.sg}
    ELSE IF es[k].type = "Symptom"
    THEN UNION {RetrieveV1From(st, _process_disease_context(st, x, ds, 1), es, k + 1) :
                    ds \in find_diseases_by_symptoms(st, <<es[k].name>>, 10)}
    ELSE IF es[k].type = "Disease"
    THEN RetrieveV1From(st,
            IF Truthy(get_disease_full_context(st, es[k].name))
            THEN _process_disease_context(st, x, <<[name |-> es[k].name]>>, 1)
            ELSE x,
            es, k + 1)
    ELSE RetrieveV1From(st, x, es, k + 1)

retrieve_subgraph(st, es) ==
    RetrieveV1From(st, [sg |-> EmptySubgraph, sn |-> EmptySeen], es, 1)

\* the names of the five node collections of a subgraph, in order
NamesOf(sg) ==
    [coll \in {"diseases", "symptoms", "drugs", "checks", "departments"} |->
        Names(sg[coll])]

\* C30: for the entities and the store of the expansion, the subgraph
\* _retrieve_subgraph returns has in each of its five node collections the
\* names, in the order, of a subgraph retrieve_subgraph of GraphRAGServiceV1
\* can return, and the two expanders can return the same collections of names.
C30_ExpandersAgree ==
    pc = "expanded" =>
        /\ NamesOf(subgraph) \in {NamesOf(v) : v \in retrieve_subgraph(store, entities)}
        /\ {NamesOf(g) : g \in _retrieve_subgraph(store, entities)}
             = {NamesOf(v) : v \in retrieve_subgraph(store, entities)}

\* a Symptom entity has discovered a disease with more symptoms than either
\* expander collects, and a Disease entity naming that disease came after it
C30_Witness ==
    /\ pc = "expanded"
    /\ Len(entities) = 2
    /\ entities[1].type = "Symptom" /\ entities[2].type = "Disease"
    /\ \E j \in 1..Len(subgraph.diseases) : subgraph.diseases[j].name = entities[2].name
    /\ HasDisease(store, entities[2].name)
    /\ Len(get_disease_full_context(store, entities[2].name).symptoms) > 10
    /\ Len(subgraph.symptoms) >= 10
    /\ Len(subgraph.diseases) > 1

(* two query calls on one service instance *)

\* the linked entities of the two calls
CallEntities ==
    {Node(<<"tou", "tong">>, "Symptom", ""),
     Node(<<"fa", "re">>, "Symptom", ""),
     Node(<<"gan", "mao">>, "Disease", "cold")}

\* the stores of the two calls: "tou tong" ranks its two diseases either way
\* or leaves the order to the store
CallStores == {StoreOf(ExpandNodes, ExpandKb(a, 8, c)) : a, c \in Weights}

CallLists == {es \in SeqsUpTo(CallEntities, MaxEntities) : Injective(Keys(es))}

InitCalls ==
    /\ Quiet
    /\ max_hops = DefaultMaxHops
    /\ pc = "expand"
    /\ question = <<>>
    /\ store \in CallStores
    /\ entities \in CallLists
    /\ Fresh

\* the locals of the first call, with the store and the model it talks to
FirstCall ==
    <<pc, question, max_hops, llmResp, genResp, store, mentions, keywords, idx,
      linked, seen, source, entities, ranked, ridx, subgraph, seenNames,
      context, answer, calls, result>>

\* the module-level instances and their callers
Service == <<_graphrag_service_instance, _neo4j_service_instance, constructed, callers>>

\* subgraph and the seen sets of the second call
PeerX == [sg |-> peer.subgraph, sn |-> peer.seenNames]

\* lines 448-461: a second call of query reaches _retrieve_subgraph, which
\* creates the subgraph and the seen sets of that call
PeerCall ==
    /\ peer = NoPeer
    /\ \E es \in CallLists :
          peer' = [pc |-> "expand", entities |-> es, idx |-> 1, ranked |-> <<>>,
                   ridx |-> 1, subgraph |-> EmptySubgraph, seenNames |-> EmptySeen]
    /\ UNCHANGED <<FirstCall, Service>>

\* line 475 in the second call
PeerSymptom ==
    /\ peer.pc = "expand" /\ peer.idx <= Len(peer.entities)
    /\ peer.entities[peer.idx].type = "Symptom"
    /\ \E ds \in find_diseases_by_symptoms(store, <<peer.entities[peer.idx].name>>, TopK) :
          peer' = [peer EXCEPT !.pc = "diseases", !.ranked = ds, !.ridx = 1]
    /\ UNCHANGED <<FirstCall, Service>>

\* a second call whose seen sets are those of the first call
PeerRankedShared ==
    /\ peer.pc = "diseases" /\ peer.ridx <= Len(peer.ranked)
    /\ LET d == peer.ranked[peer.ridx]
           y == IF d.name \in seenNames.diseases THEN [sg |-> peer.subgraph, sn |-> seenNames]
                ELSE AddRankedDisease([sg |-> peer.subgraph, sn |-> seenNames], d,
                                      get_disease_full_context(store, d.name))
       IN  /\ peer' = [peer EXCEPT !.subgraph = y.sg, !.ridx = @ + 1]
           /\ seenNames' = y.sn
    /\ UNCHANGED <<pc, question, max_hops, llmResp, genResp, store, mentions, keywords,
                   idx, linked, seen, source, entities, ranked, ridx, subgraph, calls,
                   context, answer, result, Service>>

\* lines 477-507 in the second call: one disease of its ranked list
PeerRanked ==
    /\ peer.pc = "diseases" /\ peer.ridx <= Len(peer.ranked)
    /\ LET d == peer.ranked[peer.ridx]
           y == IF d.name \in peer.seenNames.diseases THEN PeerX
                ELSE AddRankedDisease(PeerX, d, get_disease_full_context(store, d.name))
       IN  peer' = [peer EXCEPT !.subgraph = y.sg, !.seenNames = y.sn, !.ridx = @ + 1]
    /\ UNCHANGED <<FirstCall, Service>>

PeerRankedDone ==
    /\ peer.pc = "diseases" /\ peer.ridx > Len(peer.ranked)
    /\ peer' = [peer EXCEPT !.pc = "expand", !.idx = @ + 1]
    /\ UNCHANGED <<FirstCall, Service>>

\* lines 509-543 in the second call
PeerDisease ==
    /\ peer.pc = "expand" /\ peer.idx <= Len(peer.entities)
    /\ peer.entities[peer.idx].type = "Disease"
    /\ LET n == peer.entities[peer.idx].name
           y == AddDiseaseEntity(PeerX, n, get_disease_full_context(store, n))
       IN  peer' = [peer EXCEPT !.subgraph = y.sg, !.seenNames = y.sn, !.idx = @ + 1]
    /\ UNCHANGED <<FirstCall, Service>>

\* line 551 in the second call
PeerDone ==
    /\ peer.pc = "expand" /\ peer.idx > Len(peer.entities)
    /\ peer' = [peer EXCEPT !.pc = "expanded"]
    /\ UNCHANGED <<FirstCall, Service>>

Peer == PeerCall \/ PeerSymptom \/ PeerRanked \/ PeerRankedDone \/ PeerDisease \/ PeerDone

NextCalls ==
    \/ ExpandSymptom \/ RankedStep \/ RankedDone \/ ExpandDisease \/ ExpandDone
    \/ Peer

SpecCalls == InitCalls /\ [][NextCalls]_vars

\* C25: of two calls of query running on one instance in any interleaving,
\* each ends with a subgraph it can build when it runs alone on the store;
\* a step of one call changes no seen set, subgraph or loop position of the
\* other, and the service and the store stay as they were.
C25_CallsShareNoState ==
    /\ [](pc = "expanded" => subgraph \in _retrieve_subgraph(store, entities))
    /\ [](peer.pc = "expanded" => peer.subgraph \in _retrieve_subgraph(store, peer.entities))
    /\ [][peer' # peer =>
            UNCHANGED <<pc, idx, entities, ranked, ridx, subgraph, seenNames>>]_vars
    /\ [][<<pc, idx, ranked, ridx, subgraph, seenNames>>
              # <<pc, idx, ranked, ridx, subgraph, seenNames>>' => peer' = peer]_vars
    /\ [][UNCHANGED <<store, _graphrag_service_instance, _neo4j_service_instance>>]_vars

\* both calls have finished with different entities and different subgraphs,
\* and each has the same disease in its own seen set
C25_Witness ==
    /\ pc = "expanded" /\ peer.pc = "expanded"
    /\ peer.entities # <<>> /\ entities # <<>>
    /\ peer.entities # entities
    /\ seenNames.diseases \cap peer.seenNames.diseases # {}
    /\ peer.subgraph # subgraph

====
